---------------------------- MODULE Spec2Model ----------------------------
(***************************************************************************)
(* EngageTrack: the per-participant engagement state engine                *)
(* (detection/engagement_logic.py), the frame orchestrator                 *)
(* (detection/video_processor.py) and the participant registry (app.py).   *)
(*                                                                         *)
(* Time is counted in whole seconds.  Ratios (EAR, MAR, normalised y) are  *)
(* counted in hundredths, angles in whole degrees.                         *)
(***************************************************************************)
EXTENDS Integers, Sequences, FiniteSets, TLC

(***************************************************************************)
(* config.py is imported by engagement_logic.py but is not among the       *)
(* sources; the spec names the keys (section 6) and leaves the values      *)
(* open.  The values below are one admissible configuration.               *)
(***************************************************************************)
ATTENTION_CONSISTENCY_SECONDS == 2
ATTENTION_YAW_THRESHOLD == 20
PITCH_FOCUSED_MIN_ABS_THRESHOLD == 80
EAR_THRESHOLD == 20
EAR_CONSEC_FRAMES_CLOSED == 2
MAR_THRESHOLD == 50
MAR_CONSEC_FRAMES_OPEN == 2
FATIGUE_BLINK_WINDOW_SECONDS == 3
FATIGUE_BLINK_COUNT == 2
FATIGUE_BLINK_COOLDOWN_SECONDS == 2
FATIGUE_YAWN_WINDOW_SECONDS == 3
FATIGUE_YAWN_COUNT == 2
FATIGUE_YAWN_COOLDOWN_SECONDS == 2
HAND_RAISE_COOLDOWN_SECONDS == 2
HAND_MOVEMENT_COOLDOWN_SECONDS == 2
HAND_MOVEMENT_WINDOW_FRAMES == 4
HAND_MOVEMENT_STD_THRESHOLD == 4
VIDEO_FPS_TARGET == 2

(***************************************************************************)
(* Bounds of the model.                                                    *)
(***************************************************************************)
\* time.time() at construction; far above every cooldown, as the epoch is
StartTime == 10
\* the clock runs from StartTime to StartTime + MaxTime
MaxTime == 7
\* cap on the consecutive closed-eye / open-mouth frame counters
MaxRun == 3
\* the calls of one unfocused run are counted up to MaxCalls
MaxCalls == 3
\* cap on the motion samples hand_events_deque holds
MaxSamples == 3
\* capacity of ear_history and mar_history (deque(maxlen=10))
HistoryMaxLen == 2
\* capacity of hand_y_positions (deque(maxlen=90))
HandYMaxLen == 3
\* the frames one VideoProcessor is given
MaxFrames == 3
\* the frames of a face whose eyes and mouth open and close
MaxFaceFrames == 6
\* the releases made of one VideoProcessor
MaxReleases == 3
\* the rounds of detector calls made on one EngagementLogic
MaxRounds == 3

VARIABLES
    engine,             \* EngagementLogic's fields, and the sink it logs to
    now,                \* the reading time.time() returns
    op,                 \* the last call made: name, arguments, clock reading
    run,                \* the current run of consecutive unfocused
                        \* update_attention calls, and how it ended
    blinks,             \* the blinks completed so far, and the calls made
                        \* during the blink cooldown
    ear_history,        \* VideoProcessor.ear_history
    mar_history,        \* VideoProcessor.mar_history
    hand_y_positions,   \* VideoProcessor.hand_y_positions
    response,           \* what the last process_frame_bytes returned
    delivered,          \* the events of every events_logged returned so far
    frames,             \* the number of process_frame_bytes calls made
    appended,           \* the values appended to each history since it
                        \* was last cleared
    measured,           \* the last contour measured by landmark_utils:
                        \* the function, its argument, what it returned
    video_processors,   \* app.video_processors: participant_id -> instance
    last_active,        \* app.last_active: participant_id -> timestamp
    processors_lock,    \* who holds app.processors_lock, "free" if nobody
    connections,        \* the /ws/frames handlers: position, participant_id,
                        \* the local proc
    instances,          \* the VideoProcessor instances: state, the handlers
                        \* whose process_frame_bytes is running on it, the
                        \* close() calls made on it
    cleanup_task,       \* _cleanup_inactive_processors_loop: position, evict
    analyze,            \* the last /analyze_frame request: its one-off
                        \* VideoProcessor, the close() calls made on it,
                        \* whether it ended with an exception
    shutdown,           \* shutdown_cleanup_task: position
    sessions,           \* one VideoProcessor's mp_face_mesh and mp_hands
    release             \* the last release of that processor: the path it
                        \* was made on, what the session closes did, whether
                        \* close() raised, whether the caller went on

procVars ==
    <<ear_history, mar_history, hand_y_positions, response, delivered, frames,
      appended, measured>>

closeVars == <<sessions, release>>

appVars ==
    <<video_processors, last_active, processors_lock, connections, instances,
      cleanup_task, shutdown, analyze, closeVars>>

vars == <<engine, now, op, run, blinks, procVars, appVars>>

Abs(x) == IF x < 0 THEN -x ELSE x

(***************************************************************************)
(* utils/landmark_utils.py.  Landmarks are pixel coordinates (the caller   *)
(* truncates them to int); a distance is counted in tenths of a pixel,     *)
(* rounded down.                                                           *)
(***************************************************************************)
\* the largest x coordinate of a landmark
MaxCoord == 1

Points == (0..MaxCoord) \X (0..1)

\* the six-point contours, eye_landmarks[k] being c[k + 1]
Contours == [1..6 -> Points]

\* lines 5-6
euclidean_distance(p1, p2) ==
    LET d2 == (p1[1] - p2[1]) * (p1[1] - p2[1])
                 + (p1[2] - p2[2]) * (p1[2] - p2[2])
    IN  CHOOSE c \in 0..(10 * (MaxCoord + 2)) :
            c * c <= 100 * d2 /\ 100 * d2 < (c + 1) * (c + 1)

ZeroDivisionError == [raised |-> TRUE, value |-> 0]

Returned(v) == [raised |-> FALSE, value |-> v]

\* the division made whatever C is
aspect_ratio_unguarded(eye_landmarks) ==
    LET A == euclidean_distance(eye_landmarks[2], eye_landmarks[6])
        B == euclidean_distance(eye_landmarks[3], eye_landmarks[5])
        C == euclidean_distance(eye_landmarks[1], eye_landmarks[4])
    IN  IF C = 0 THEN ZeroDivisionError
        ELSE Returned((100 * (A + B)) \div (2 * C))

\* lines 8-12, the ratio in hundredths
get_eye_aspect_ratio(eye_landmarks) ==
    LET A == euclidean_distance(eye_landmarks[2], eye_landmarks[6])
        B == euclidean_distance(eye_landmarks[3], eye_landmarks[5])
        C == euclidean_distance(eye_landmarks[1], eye_landmarks[4])
    IN  IF C # 0 THEN Returned((100 * (A + B)) \div (2 * C)) ELSE Returned(0)

\* lines 14-18
get_mouth_aspect_ratio(mouth_landmarks) ==
    LET A == euclidean_distance(mouth_landmarks[2], mouth_landmarks[6])
        B == euclidean_distance(mouth_landmarks[3], mouth_landmarks[5])
        C == euclidean_distance(mouth_landmarks[1], mouth_landmarks[4])
    IN  IF C # 0 THEN Returned((100 * (A + B)) \div (2 * C)) ELSE Returned(0)

Pad2(n) == IF n < 10 THEN "0" \o ToString(n) ELSE ToString(n)

\* datetime.fromtimestamp(timestamp).strftime("%H:%M:%S"), timezone offset 0
FormatTime(timestamp) ==
    Pad2((timestamp \div 3600) % 24) \o ":" \o Pad2((timestamp \div 60) % 60)
        \o ":" \o Pad2(timestamp % 60)

\* EngagementLogic.__init__, with SimpleLogger.events = [] as its sink.
\* calls is the history of the callback's invocations (never cleared).
EngagementLogic ==
    [ _current_attention_state    |-> "Focused",
      _distraction_start_time     |-> 0,
      last_logged_attention_state |-> "Focused",
      hand_events_deque           |-> << >>,
      hand_cooldown_end_time      |-> 0,
      last_hand_raised_log_time   |-> 0,
      yawn_events_deque           |-> << >>,
      yawn_cooldown_end_time      |-> 0,
      blink_events_deque          |-> << >>,
      blink_cooldown_end_time     |-> 0,
      _is_eye_closed              |-> FALSE,
      _frames_eye_closed          |-> 0,
      _is_mouth_open              |-> FALSE,
      _frames_mouth_open          |-> 0,
      events                      |-> << >>,
      calls                       |-> << >> ]

\* VideoProcessor._log_event: self.logger.events.append((ts_str, type, desc, ""))
_log_event(E, event_type, description, timestamp) ==
    [E EXCEPT
        !.events = Append(@, <<FormatTime(timestamp), event_type, description, "">>),
        !.calls  = Append(@, [event_type  |-> event_type,
                              description |-> description,
                              timestamp   |-> timestamp])]

(***************************************************************************)
(* update_attention                                                        *)
(***************************************************************************)
\* lines 47-54: the direction annotation
distraction_direction(current_yaw, current_pitch) ==
    LET d1 == IF Abs(current_yaw) > ATTENTION_YAW_THRESHOLD THEN "sideways" ELSE ""
    IN  IF Abs(current_pitch) < PITCH_FOCUSED_MIN_ABS_THRESHOLD
        THEN IF current_pitch > 0
             THEN (IF d1 = "" THEN "down" ELSE d1 \o " and down")
             ELSE (IF d1 = "" THEN "up" ELSE d1 \o " and up")
        ELSE d1

\* line 55
distraction_description(direction) ==
    IF direction # "" THEN "Distracted (looking " \o direction \o ")"
    ELSE "Distracted"

\* a Focused branch that starts the timer once and never restarts it
attention_focused_keep_timer(E, t, is_currently_focused) ==
    IF ~is_currently_focused
    THEN [E EXCEPT !._distraction_start_time = IF @ = 0 THEN t ELSE @,
                   !._current_attention_state = "Distracted"]
    ELSE E

\* lines 37-40: state Focused
attention_focused(E, t, is_currently_focused) ==
    IF ~is_currently_focused
    THEN [E EXCEPT !._distraction_start_time = t,
                   !._current_attention_state = "Distracted"]
    ELSE E

\* lines 41-58: state Distracted
attention_distracted(E, t, is_currently_focused, current_yaw, current_pitch) ==
    IF is_currently_focused
    THEN [E EXCEPT !._current_attention_state = "Focused"]
    ELSE LET distraction_duration == t - E._distraction_start_time
         IN  IF distraction_duration >= ATTENTION_CONSISTENCY_SECONDS
             THEN LET log_description ==
                          distraction_description(
                              distraction_direction(current_yaw, current_pitch))
                  IN  [_log_event(E, "Attention", log_description, t) EXCEPT
                          !.last_logged_attention_state = log_description,
                          !._current_attention_state = "Logged_Distraction"]
             ELSE E

\* a Logged_Distraction branch that logs again on continued distraction
attention_logged_relog(E, t, is_currently_focused) ==
    IF is_currently_focused
    THEN [_log_event(E, "Attention", "Focused", t) EXCEPT
             !.last_logged_attention_state = "Focused",
             !._current_attention_state = "Focused"]
    ELSE _log_event(E, "Attention", "Distracted", t)

\* a Logged_Distraction branch that returns to Focused without logging it
attention_logged_unlogged_focus(E, t, is_currently_focused) ==
    IF is_currently_focused
    THEN [E EXCEPT !._current_attention_state = "Focused"]
    ELSE E

\* lines 59-63: state Logged_Distraction
attention_logged(E, t, is_currently_focused) ==
    IF is_currently_focused
    THEN [_log_event(E, "Attention", "Focused", t) EXCEPT
             !.last_logged_attention_state = "Focused",
             !._current_attention_state = "Focused"]
    ELSE E

update_attention(E, t, is_currently_focused, current_yaw, current_pitch) ==
    CASE E._current_attention_state = "Focused" ->
             attention_focused(E, t, is_currently_focused)
      [] E._current_attention_state = "Distracted" ->
             attention_distracted(E, t, is_currently_focused, current_yaw, current_pitch)
      [] E._current_attention_state = "Logged_Distraction" ->
             attention_logged(E, t, is_currently_focused)
      [] OTHER -> E

(***************************************************************************)
(* detect_and_register_blink / detect_and_register_yawn                    *)
(***************************************************************************)
\* a pruning that pops nothing
prune_deque_keep_all(q, t, num, den) == q

\* while q and t - q[0] > num / den: q.popleft()
RECURSIVE prune_deque(_, _, _, _)
prune_deque(q, t, num, den) ==
    IF q # << >> /\ (t - Head(q)) * den > num
    THEN prune_deque(Tail(q), t, num, den)
    ELSE q

\* a blink registration that starts no cooldown
register_blink_no_cooldown(E, t) ==
    LET q  == prune_deque(Append(E.blink_events_deque, t), t,
                          FATIGUE_BLINK_WINDOW_SECONDS, 1)
        E1 == [E EXCEPT !.blink_events_deque = q]
    IN  IF Len(q) >= FATIGUE_BLINK_COUNT
        THEN _log_event(E1, "Fatigue", "Blink: tired fatigue", t)
        ELSE E1

\* lines 76-81: an eye-open frame that ends a counted closure
register_blink(E, t) ==
    LET q  == prune_deque(Append(E.blink_events_deque, t), t,
                          FATIGUE_BLINK_WINDOW_SECONDS, 1)
        E1 == [E EXCEPT !.blink_events_deque = q]
    IN  IF Len(q) >= FATIGUE_BLINK_COUNT
        THEN [_log_event(E1, "Fatigue", "Blink: tired fatigue", t) EXCEPT
                 !.blink_cooldown_end_time = t + FATIGUE_BLINK_COOLDOWN_SECONDS]
        ELSE E1

\* the open branch with the counter reset moved inside the mark test
detect_and_register_blink_reset_on_mark(E, t, ear) ==
    IF t < E.blink_cooldown_end_time THEN E
    ELSE IF ear < EAR_THRESHOLD
    THEN LET n == E._frames_eye_closed + 1
         IN  [E EXCEPT !._frames_eye_closed = n,
                       !._is_eye_closed =
                           IF ~@ /\ n >= EAR_CONSEC_FRAMES_CLOSED THEN TRUE ELSE @]
    ELSE IF E._is_eye_closed
         THEN [(IF E._frames_eye_closed >= EAR_CONSEC_FRAMES_CLOSED
                THEN register_blink(E, t) ELSE E)
               EXCEPT !._is_eye_closed = FALSE, !._frames_eye_closed = 0]
         ELSE E

\* the eye marked closed on the first frame below the threshold
detect_and_register_blink_mark_at_once(E, t, ear) ==
    IF t < E.blink_cooldown_end_time THEN E
    ELSE IF ear < EAR_THRESHOLD
    THEN [E EXCEPT !._frames_eye_closed = @ + 1, !._is_eye_closed = TRUE]
    ELSE LET E1 == IF E._is_eye_closed
                   THEN [(IF E._frames_eye_closed >= EAR_CONSEC_FRAMES_CLOSED
                          THEN register_blink(E, t) ELSE E)
                         EXCEPT !._is_eye_closed = FALSE]
                   ELSE E
         IN  [E1 EXCEPT !._frames_eye_closed = 0]

\* the blink detector without the return of lines 67-68
detect_and_register_blink_through_cooldown(E, t, ear) ==
    IF ear < EAR_THRESHOLD
    THEN LET n == E._frames_eye_closed + 1
         IN  [E EXCEPT !._frames_eye_closed = n,
                       !._is_eye_closed =
                           IF ~@ /\ n >= EAR_CONSEC_FRAMES_CLOSED THEN TRUE ELSE @]
    ELSE LET E1 == IF E._is_eye_closed
                   THEN [(IF E._frames_eye_closed >= EAR_CONSEC_FRAMES_CLOSED
                          THEN register_blink(E, t) ELSE E)
                         EXCEPT !._is_eye_closed = FALSE]
                   ELSE E
         IN  [E1 EXCEPT !._frames_eye_closed = 0]

detect_and_register_blink(E, t, ear) ==
    IF t < E.blink_cooldown_end_time THEN E
    ELSE IF ear < EAR_THRESHOLD
    THEN LET n == E._frames_eye_closed + 1
         IN  [E EXCEPT !._frames_eye_closed = n,
                       !._is_eye_closed =
                           IF ~@ /\ n >= EAR_CONSEC_FRAMES_CLOSED THEN TRUE ELSE @]
    ELSE LET E1 == IF E._is_eye_closed
                   THEN [(IF E._frames_eye_closed >= EAR_CONSEC_FRAMES_CLOSED
                          THEN register_blink(E, t) ELSE E)
                         EXCEPT !._is_eye_closed = FALSE]
                   ELSE E
         IN  [E1 EXCEPT !._frames_eye_closed = 0]

\* a recording of a yawn that starts no cooldown
register_yawn_no_cooldown(E, t) ==
    LET q  == prune_deque(Append(E.yawn_events_deque, t), t,
                          FATIGUE_YAWN_WINDOW_SECONDS, 1)
        E1 == [E EXCEPT !.yawn_events_deque = q]
    IN  IF Len(q) >= FATIGUE_YAWN_COUNT
        THEN _log_event(E1, "Fatigue", "Yawning", t)
        ELSE E1

\* lines 96-101
register_yawn(E, t) ==
    LET q  == prune_deque(Append(E.yawn_events_deque, t), t,
                          FATIGUE_YAWN_WINDOW_SECONDS, 1)
        E1 == [E EXCEPT !.yawn_events_deque = q]
    IN  IF Len(q) >= FATIGUE_YAWN_COUNT
        THEN [_log_event(E1, "Fatigue", "Yawning", t) EXCEPT
                 !.yawn_cooldown_end_time = t + FATIGUE_YAWN_COOLDOWN_SECONDS]
        ELSE E1

\* the yawn detector without the return of lines 87-88
detect_and_register_yawn_through_cooldown(E, t, mar) ==
    IF mar > MAR_THRESHOLD
    THEN LET n == E._frames_mouth_open + 1
         IN  [E EXCEPT !._frames_mouth_open = n,
                       !._is_mouth_open =
                           IF ~@ /\ n >= MAR_CONSEC_FRAMES_OPEN THEN TRUE ELSE @]
    ELSE LET E1 == IF E._is_mouth_open
                   THEN [(IF E._frames_mouth_open >= MAR_CONSEC_FRAMES_OPEN
                          THEN register_yawn(E, t) ELSE E)
                         EXCEPT !._is_mouth_open = FALSE]
                   ELSE E
         IN  [E1 EXCEPT !._frames_mouth_open = 0]

detect_and_register_yawn(E, t, mar) ==
    IF t < E.yawn_cooldown_end_time THEN E
    ELSE IF mar > MAR_THRESHOLD
    THEN LET n == E._frames_mouth_open + 1
         IN  [E EXCEPT !._frames_mouth_open = n,
                       !._is_mouth_open =
                           IF ~@ /\ n >= MAR_CONSEC_FRAMES_OPEN THEN TRUE ELSE @]
    ELSE LET E1 == IF E._is_mouth_open
                   THEN [(IF E._frames_mouth_open >= MAR_CONSEC_FRAMES_OPEN
                          THEN register_yawn(E, t) ELSE E)
                         EXCEPT !._is_mouth_open = FALSE]
                   ELSE E
         IN  [E1 EXCEPT !._frames_mouth_open = 0]

(***************************************************************************)
(* register_hand_event                                                     *)
(***************************************************************************)
\* a raise path that starts no motion cooldown
hand_raised_no_cooldown(E, t) ==
    [_log_event(E, "Hand Motion", "Hand Raised", t) EXCEPT
        !.last_hand_raised_log_time = t]

\* a raise path that also resets the blink detector's closed-frame counter
hand_raised_resetting_blink(E, t) ==
    [_log_event(E, "Hand Motion", "Hand Raised", t) EXCEPT
        !.last_hand_raised_log_time = t,
        !.hand_cooldown_end_time = t + HAND_MOVEMENT_COOLDOWN_SECONDS,
        !._frames_eye_closed = 0]

\* lines 108-110: the raise path
hand_raised(E, t) ==
    [_log_event(E, "Hand Motion", "Hand Raised", t) EXCEPT
        !.last_hand_raised_log_time = t,
        !.hand_cooldown_end_time = t + HAND_MOVEMENT_COOLDOWN_SECONDS]

\* a motion path that does not count the samples in the window
hand_motion_no_count(E, t, hand_positions_std) ==
    LET q  == prune_deque(Append(E.hand_events_deque, t), t,
                          HAND_MOVEMENT_WINDOW_FRAMES, VIDEO_FPS_TARGET)
        E1 == [E EXCEPT !.hand_events_deque = q]
    IN  IF hand_positions_std > HAND_MOVEMENT_STD_THRESHOLD
        THEN [_log_event(E1, "Hand Motion", "Hand Detected", t) EXCEPT
                 !.hand_cooldown_end_time = t + HAND_MOVEMENT_COOLDOWN_SECONDS]
        ELSE E1

\* lines 114-119: a motion sample outside the motion cooldown
hand_motion(E, t, hand_positions_std) ==
    LET q  == prune_deque(Append(E.hand_events_deque, t), t,
                          HAND_MOVEMENT_WINDOW_FRAMES, VIDEO_FPS_TARGET)
        E1 == [E EXCEPT !.hand_events_deque = q]
    IN  IF Len(q) * VIDEO_FPS_TARGET >= HAND_MOVEMENT_WINDOW_FRAMES * 1
           /\ hand_positions_std > HAND_MOVEMENT_STD_THRESHOLD
        THEN [_log_event(E1, "Hand Motion", "Hand Detected", t) EXCEPT
                 !.hand_cooldown_end_time = t + HAND_MOVEMENT_COOLDOWN_SECONDS]
        ELSE E1

\* the raise path taken as soon as HAND_RAISE_COOLDOWN_SECONDS have passed
register_hand_event_raise_at_cooldown(E, t, is_hand_raised_now, hand_positions_std) ==
    IF is_hand_raised_now
       /\ t - E.last_hand_raised_log_time >= HAND_RAISE_COOLDOWN_SECONDS
    THEN hand_raised(E, t)
    ELSE IF t < E.hand_cooldown_end_time THEN E
    ELSE hand_motion(E, t, hand_positions_std)

register_hand_event(E, t, is_hand_raised_now, hand_positions_std) ==
    IF is_hand_raised_now
       /\ t - E.last_hand_raised_log_time > HAND_RAISE_COOLDOWN_SECONDS
    THEN hand_raised(E, t)
    ELSE IF t < E.hand_cooldown_end_time THEN E
    ELSE hand_motion(E, t, hand_positions_std)

(***************************************************************************)
(* VideoProcessor.process_frame_bytes                                      *)
(*                                                                         *)
(* A frame is what decoding and the landmark providers make of the bytes:  *)
(* decodable, face, ear, mar, pitch, yaw, eye_y (the mean y of landmarks   *)
(* 33 and 263), hand, wrist_y.  reads are the readings of the successive   *)
(* self._now() calls of one frame.  pose_success is the success flag of    *)
(* cv2.solvePnP (landmark_utils.py line 46); get_head_pose returns the     *)
(* angles of whatever rotation the solver left and does not read the flag. *)
(***************************************************************************)
\* deque(maxlen=n).append(x)
\* a full deque that keeps what it holds and drops the new value
deque_append_keep_oldest(q, x, n) ==
    IF Len(q) >= n THEN q ELSE Append(q, x)

deque_append(q, x, n) ==
    IF Len(q) >= n THEN Append(Tail(q), x) ELSE Append(q, x)

RECURSIVE SumSeq(_)
SumSeq(xs) == IF xs = << >> THEN 0 ELSE Head(xs) + SumSeq(Tail(xs))

\* float(np.std(list(xs))), rounded up to a whole hundredth: for an integer
\* T, np_std(xs) > T exactly when the deviation exceeds T
np_std(xs) ==
    LET n   == Len(xs)
        sq  == [i \in 1..n |-> xs[i] * xs[i]]
        num == n * SumSeq(sq) - SumSeq(xs) * SumSeq(xs)
    IN  CHOOSE c \in 0..100 :
            /\ c * c * n * n >= num
            /\ c > 0 => (c - 1) * (c - 1) * n * n < num

\* line 70
is_focused(pitch, yaw) == Abs(yaw) <= 25 /\ Abs(pitch) >= 90

\* a label that looks at the cooldowns before the eye and mouth marks
fatigue_label_cooldown_first(E, t1, t2) ==
    IF E.blink_cooldown_end_time > t1 \/ E.yawn_cooldown_end_time > t2
    THEN "Fatigue Detected"
    ELSE IF E._is_eye_closed \/ E._is_mouth_open THEN "Potential Fatigue"
    ELSE "Normal"

\* lines 73-78
fatigue_label(E, t1, t2) ==
    IF E._is_eye_closed \/ E._is_mouth_open THEN "Potential Fatigue"
    ELSE IF E.blink_cooldown_end_time > t1 \/ E.yawn_cooldown_end_time > t2
    THEN "Fatigue Detected"
    ELSE "Normal"

\* a face frame that updates the attention before the fatigue detectors
face_frame_attention_first(P, frame, reads) ==
    LET is_currently_focused == is_focused(frame.pitch, frame.yaw)
        E1 == update_attention(P.engine, reads[3], is_currently_focused,
                               frame.pitch, frame.yaw)
        E2 == detect_and_register_blink(E1, reads[1], frame.ear)
        E3 == detect_and_register_yawn(E2, reads[2], frame.mar)
    IN  [ engine            |-> E3,
          ear_history       |-> deque_append(P.ear_history, frame.ear, HistoryMaxLen),
          mar_history       |-> deque_append(P.mar_history, frame.mar, HistoryMaxLen),
          hand_y_positions  |-> P.hand_y_positions,
          attention_instant |-> IF is_currently_focused THEN "Focused"
                                ELSE "Distracted",
          fatigue_instant   |-> fatigue_label(E3, reads[4], reads[5]),
          attention_call    |-> <<is_currently_focused, frame.pitch, frame.yaw>> ]

\* lines 54-78: a face was found
face_frame(P, frame, reads) ==
    LET E1 == detect_and_register_blink(P.engine, reads[1], frame.ear)
        E2 == detect_and_register_yawn(E1, reads[2], frame.mar)
        is_currently_focused == is_focused(frame.pitch, frame.yaw)
        E3 == update_attention(E2, reads[3], is_currently_focused,
                               frame.pitch, frame.yaw)
    IN  [ engine            |-> E3,
          ear_history       |-> deque_append(P.ear_history, frame.ear, HistoryMaxLen),
          mar_history       |-> deque_append(P.mar_history, frame.mar, HistoryMaxLen),
          hand_y_positions  |-> P.hand_y_positions,
          attention_instant |-> IF is_currently_focused THEN "Focused"
                                ELSE "Distracted",
          fatigue_instant   |-> fatigue_label(E3, reads[4], reads[5]),
          attention_call    |-> <<is_currently_focused, frame.pitch, frame.yaw>> ]

\* lines 79-85: no face was found
no_face_frame(P, reads) ==
    [ engine            |-> update_attention(P.engine, reads[3], FALSE, 0, 0),
      ear_history       |-> << >>,
      mar_history       |-> << >>,
      hand_y_positions  |-> << >>,
      attention_instant |-> "No Face Detected",
      fatigue_instant   |-> "N/A",
      attention_call    |-> <<FALSE, 0, 0>> ]

\* lines 98-105: the label of a frame with a hand, q being hand_y_positions
\* with the wrist appended
hand_label(q, is_hand_raised_now) ==
    LET raised == IF is_hand_raised_now THEN "Hand Raised" ELSE "No Hand Detected"
    IN  IF Len(q) = HandYMaxLen /\ np_std(q) > 4 THEN "Hand Detected" ELSE raised

\* lines 88-106: hand processing
hand_frame(hand_y, frame) ==
    IF frame.hand
    THEN LET eye_y_norm == IF frame.face THEN frame.eye_y ELSE 50
             is_hand_raised_now == frame.wrist_y * 10 < eye_y_norm * 4
             q == deque_append(hand_y, frame.wrist_y, HandYMaxLen)
         IN  [ hand_y_positions   |-> q,
               is_hand_raised_now |-> is_hand_raised_now,
               current_hand_std   |-> IF Len(q) = HandYMaxLen THEN np_std(q) ELSE 0,
               hand_instant       |-> hand_label(q, is_hand_raised_now) ]
    ELSE [ hand_y_positions   |-> hand_y,
           is_hand_raised_now |-> FALSE,
           current_hand_std   |-> 0,
           hand_instant       |-> "No Hand Detected" ]

\* a drain that returns the events and leaves them in the buffer
drain_no_clear(E) == [events_logged |-> E.events, engine |-> E]

\* lines 111-113: events_logged = list(self.logger.events); events = []
drain(E) == [events_logged |-> E.events, engine |-> [E EXCEPT !.events = << >>]]

\* a call that handles an undecodable frame as a frame without a face
process_frame_bytes_undecoded_as_no_face(P, frame, reads) ==
    LET F == IF frame.decodable /\ frame.face THEN face_frame(P, frame, reads)
             ELSE no_face_frame(P, reads)
        H == hand_frame(F.hand_y_positions, frame)
        E == register_hand_event(F.engine, reads[6], H.is_hand_raised_now,
                                 H.current_hand_std)
        D == drain(E)
    IN  [ engine |-> D.engine, ear_history |-> F.ear_history,
          mar_history |-> F.mar_history,
          hand_y_positions |-> H.hand_y_positions,
          response |-> IF frame.decodable
                       THEN [ attention_instant |-> F.attention_instant,
                              fatigue_instant   |-> F.fatigue_instant,
                              hand_instant      |-> H.hand_instant,
                              events_logged     |-> D.events_logged ]
                       ELSE [error |-> "could not decode frame"],
          attention_call |-> F.attention_call ]

\* P holds the VideoProcessor's engine and histories; the result holds them
\* after the call, the response, and the update_attention call made
process_frame_bytes(P, frame, reads) ==
    IF ~frame.decodable
    THEN [ engine |-> P.engine, ear_history |-> P.ear_history,
           mar_history |-> P.mar_history, hand_y_positions |-> P.hand_y_positions,
           response |-> [error |-> "could not decode frame"],
           attention_call |-> << >> ]
    ELSE LET F == IF frame.face THEN face_frame(P, frame, reads)
                  ELSE no_face_frame(P, reads)
             H == hand_frame(F.hand_y_positions, frame)
             E == register_hand_event(F.engine, reads[6], H.is_hand_raised_now,
                                      H.current_hand_std)
             D == drain(E)
         IN  [ engine |-> D.engine, ear_history |-> F.ear_history,
               mar_history |-> F.mar_history,
               hand_y_positions |-> H.hand_y_positions,
               response |-> [ attention_instant |-> F.attention_instant,
                              fatigue_instant   |-> F.fatigue_instant,
                              hand_instant      |-> H.hand_instant,
                              events_logged     |-> D.events_logged ],
               attention_call |-> F.attention_call ]

(***************************************************************************)
(* process_frame_bytes when the logging callback raises.  No engine method *)
(* and no line of process_frame_bytes catches an exception, so the first   *)
(* self.logger(...) call that raises ends the frame there: the assignments *)
(* made before it stay, those after it are not made, nothing is returned.  *)
(***************************************************************************)
\* the call that took the engine from E1 to E2 called self.logger
logged(E1, E2) == Len(E2.calls) > Len(E1.calls)

\* engagement_logic.py lines 76-80: the blink detector up to the logger call
blink_until_log(E, t) ==
    [E EXCEPT !.blink_events_deque =
                  prune_deque(Append(@, t), t, FATIGUE_BLINK_WINDOW_SECONDS, 1)]

\* engagement_logic.py lines 96-100: the yawn detector up to the logger call
yawn_until_log(E, t) ==
    [E EXCEPT !.yawn_events_deque =
                  prune_deque(Append(@, t), t, FATIGUE_YAWN_WINDOW_SECONDS, 1)]

\* engagement_logic.py lines 107-108 and 114-118: register_hand_event up to
\* the logger call, on the raise path or on the motion path
hand_until_log(E, t, is_hand_raised_now) ==
    IF is_hand_raised_now
       /\ t - E.last_hand_raised_log_time > HAND_RAISE_COOLDOWN_SECONDS
    THEN E
    ELSE [E EXCEPT !.hand_events_deque =
                       prune_deque(Append(@, t), t, HAND_MOVEMENT_WINDOW_FRAMES,
                                   VIDEO_FPS_TARGET)]

\* what P has become when the exception leaves process_frame_bytes
raised_at(P, E, ear_h, mar_h, hand_y) ==
    [ raised |-> TRUE, engine |-> E, ear_history |-> ear_h,
      mar_history |-> mar_h, hand_y_positions |-> hand_y ]

\* video_processor.py lines 34-114 with a logging callback that raises:
\* raised tells whether the frame reached a logger call
process_frame_bytes_logger_raising(P, frame, reads) ==
    LET E0    == P.engine
        ear_h == IF frame.face
                 THEN deque_append(P.ear_history, frame.ear, HistoryMaxLen)
                 ELSE P.ear_history
        mar_h == IF frame.face
                 THEN deque_append(P.mar_history, frame.mar, HistoryMaxLen)
                 ELSE P.mar_history
        E1    == IF frame.face
                 THEN detect_and_register_blink(E0, reads[1], frame.ear) ELSE E0
        E2    == IF frame.face
                 THEN detect_and_register_yawn(E1, reads[2], frame.mar) ELSE E1
        E3    == IF frame.face
                 THEN update_attention(E2, reads[3],
                                       is_focused(frame.pitch, frame.yaw),
                                       frame.pitch, frame.yaw)
                 ELSE update_attention(E2, reads[3], FALSE, 0, 0)
        F     == IF frame.face THEN face_frame(P, frame, reads)
                 ELSE no_face_frame(P, reads)
        H     == hand_frame(F.hand_y_positions, frame)
        E4    == register_hand_event(E3, reads[6], H.is_hand_raised_now,
                                     H.current_hand_std)
    IN  IF ~frame.decodable THEN [raised |-> FALSE]
        ELSE IF logged(E0, E1)
        THEN raised_at(P, blink_until_log(E0, reads[1]), ear_h, mar_h,
                       P.hand_y_positions)
        ELSE IF logged(E1, E2)
        THEN raised_at(P, yawn_until_log(E1, reads[2]), ear_h, mar_h,
                       P.hand_y_positions)
        ELSE IF logged(E2, E3)
        THEN raised_at(P, E2, ear_h, mar_h, P.hand_y_positions)
        ELSE IF logged(E3, E4)
        THEN raised_at(P, hand_until_log(E3, reads[6], H.is_hand_raised_now),
                       F.ear_history, F.mar_history, H.hand_y_positions)
        ELSE [raised |-> FALSE]

(***************************************************************************)
(* app.py: the participant registry.  A handler's code between two awaits  *)
(* runs without interleaving (one event loop); process_frame_bytes and     *)
(* close run in worker threads (asyncio.to_thread), so they overlap with   *)
(* everything else.  The instance a handler creates is numbered after the  *)
(* handler.                                                                *)
(***************************************************************************)
PROCESSOR_IDLE_TIMEOUT == 60

\* the /ws/frames connections made, and the participant ids they use
Connections == {1, 2}
ParticipantIds == {"p1", "p2"}
\* the clock of the registry runs to StartTime + MaxWall
MaxWall == 61

\* no /analyze_frame request served yet; proc is "none" (proc = None),
\* "open" or "closed", raised tells whether the request ended with an
\* exception
NoAnalyze == [proc |-> "none", raised |-> FALSE, closes |-> 0]

NoConnection == [pc |-> "new", participant_id |-> "", proc |-> 0]
NoInstance == [state |-> "none", running |-> {}, closes |-> 0]

\* dict[key] = value
Put(d, key, value) ==
    [k \in DOMAIN d \cup {key} |-> IF k = key THEN value ELSE d[k]]

\* dict.pop(key, None): the dict without key
Pop(d, key) == [k \in DOMAIN d \ {key} |-> d[k]]

\* dict.get(key) / the value dict.pop(key, None) returns, 0 for None
Get(d, key) == IF key \in DOMAIN d THEN d[key] ELSE 0

\* VideoProcessor.close() called on instance i (0 is None: not called)
close(I, i) ==
    IF i = 0 THEN I
    ELSE [I EXCEPT ![i].state = "closed", ![i].closes = @ + 1]

(***************************************************************************)
(* Releasing a VideoProcessor.  A call that raises is a result with raised *)
(* set; fails tells, for mp_face_mesh and for mp_hands, whether the        *)
(* session's close() raises (closing a session twice may raise).           *)
(***************************************************************************)
\* self.mp_face_mesh.close() / self.mp_hands.close()
session_close(session, fails) ==
    [raised |-> fails, session |-> IF fails THEN session ELSE "closed"]

\* video_processor.py lines 119-123 and 124-128: try: ... except Exception: pass
try_session_close(session, fails) ==
    [raised |-> FALSE, session |-> session_close(session, fails).session]

\* a close() whose second session close is not inside a try
VideoProcessor_close_unguarded(v, fails) ==
    LET f == try_session_close(v.mp_face_mesh, fails[1])
        h == session_close(v.mp_hands, fails[2])
    IN  [raised |-> f.raised \/ h.raised,
         sessions |-> [mp_face_mesh |-> f.session, mp_hands |-> h.session]]

\* video_processor.py lines 115-128: VideoProcessor.close()
VideoProcessor_close(v, fails) ==
    LET f == try_session_close(v.mp_face_mesh, fails[1])
        h == IF f.raised THEN [raised |-> TRUE, session |-> v.mp_hands]
             ELSE try_session_close(v.mp_hands, fails[2])
    IN  [raised |-> f.raised \/ h.raised,
         sessions |-> [mp_face_mesh |-> f.session, mp_hands |-> h.session]]

\* app.py lines 94-105: await asyncio.to_thread(proc.close)
_close_processor(v, fails) == VideoProcessor_close(v, fails)

\* the callers of _close_processor: analyze_frame (lines 127-132), the
\* disconnect handler (369-373), the error handler (378-384), eviction
\* (83-87) and shutdown (59-62)
ReleasePaths == {"analyze_frame", "disconnect", "error", "eviction", "shutdown"}

\* each caller wraps the call in try: ... except Exception: pass
CaughtPaths == {"analyze_frame", "disconnect", "error", "eviction", "shutdown"}

\* one caller releasing the processor
release_on(path, v, fails) ==
    LET r == _close_processor(v, fails)
    IN  [sessions |-> r.sessions, close_raised |-> r.raised,
         continued |-> ~r.raised \/ path \in CaughtPaths]

NoRelease ==
    [calls |-> 0, path |-> "", fails |-> <<FALSE, FALSE>>,
     before |-> [mp_face_mesh |-> "open", mp_hands |-> "open"],
     close_raised |-> FALSE, continued |-> TRUE]

(***************************************************************************)
(* Calls made directly on one EngagementLogic, the clock advancing between  *)
(* them.                                                                   *)
(***************************************************************************)
YawValues == {0, 30}
PitchValues == {-10, 100}
EarValues == {10, 30}
MarValues == {30, 70}
StdValues == {0, 6}

NoResponse == [none |-> TRUE]

NoOp == [name |-> "init", args |-> << >>, t |-> StartTime]

NoRun == [nth |-> 0, first |-> 0, calls |-> 0, logged |-> 0, idle |-> 0,
          closing |-> 0, open |-> FALSE]

Min(a, b) == IF a < b THEN a ELSE b

\* the callback invocations E2 holds beyond those of E1
NewCalls(E1, E2) == SubSeq(E2.calls, Len(E1.calls) + 1, Len(E2.calls))

\* run after an update_attention call that logged n events: nth counts the
\* runs, first is the
\* clock reading of the run's first call, calls the number of its calls,
\* logged the events they logged, idle the calls made after the first event
\* that logged nothing, closing the events logged by the focused call that
\* ended the run
RunAfter(r, t, is_currently_focused, n) ==
    IF ~is_currently_focused
    THEN IF r.open
         THEN [r EXCEPT !.calls = Min(@ + 1, MaxCalls), !.logged = @ + n,
                        !.idle = IF r.logged > 0 /\ n = 0
                                 THEN Min(@ + 1, MaxCalls) ELSE @]
         ELSE [nth |-> Min(r.nth + 1, MaxCalls), first |-> t, calls |-> 1,
               logged |-> n, idle |-> 0, closing |-> 0, open |-> TRUE]
    ELSE IF r.open
         THEN [r EXCEPT !.open = FALSE, !.closing = n]
         ELSE r

\* times: the clock readings of the open frames that ended a counted closure
\* outside the cooldown; cooled: the calls made during the current cooldown;
\* closed: the closed frames (ear < EAR_THRESHOLD) seen outside the cooldown
\* since the last frame that was open or fell into the cooldown
NoBlinks == [times |-> << >>, cooled |-> 0, closed |-> 0]

BlinksAfter(b, E, t, ear) ==
    IF t < E.blink_cooldown_end_time
    THEN [b EXCEPT !.cooled = Min(@ + 1, MaxCalls), !.closed = 0]
    ELSE [times  |-> IF ear >= EAR_THRESHOLD /\ E._is_eye_closed
                     THEN Append(b.times, t) ELSE b.times,
          cooled |-> 0,
          closed |-> IF ear < EAR_THRESHOLD
                     THEN Min(b.closed + 1, MaxRun + 1) ELSE 0]

\* no contour measured yet
NoMeasure == [fn |-> "none", contour |-> << >>, result |-> Returned(0)]

\* nothing appended yet to ear_history, mar_history, hand_y_positions
\* hand_since_face counts the wrist heights appended, in frames with a
\* face, since the last frame without one
NoAppended ==
    [ear |-> << >>, mar |-> << >>, hand_y |-> << >>, hand_since_face |-> 0]

\* a decoded frame with a face appends its EAR and MAR, one without a face
\* clears the three histories; a hand then appends its wrist height
AppendedAfter(a, frame) ==
    IF ~frame.decodable THEN a
    ELSE LET a1 == IF frame.face
                   THEN [a EXCEPT !.ear = Append(@, frame.ear),
                                  !.mar = Append(@, frame.mar)]
                   ELSE NoAppended
         IN  IF frame.hand
             THEN [a1 EXCEPT !.hand_y = Append(@, frame.wrist_y),
                             !.hand_since_face =
                                 IF frame.face THEN @ + 1 ELSE @]
             ELSE a1

\* app.py module level (lines 21-32): empty maps, free lock, cleanup loop
\* started, no handler running, no VideoProcessor created
InitRegistry ==
    /\ video_processors = << >>
    /\ last_active = << >>
    /\ processors_lock = "free"
    /\ connections = [c \in Connections |-> NoConnection]
    /\ instances = [i \in Connections |-> NoInstance]
    /\ cleanup_task = [pc |-> "sleep", evict |-> {}]
    /\ shutdown = "running"
    /\ analyze = NoAnalyze

\* video_processor.py lines 20-21: both sessions are opened
InitSessions ==
    /\ sessions = [mp_face_mesh |-> "open", mp_hands |-> "open"]
    /\ release = NoRelease

\* everything but the contour to measure
InitProcessor ==
    /\ InitRegistry
    /\ InitSessions
    /\ engine = EngagementLogic
    /\ now = StartTime
    /\ op = NoOp
    /\ run = NoRun
    /\ blinks = NoBlinks
    /\ ear_history = << >>
    /\ mar_history = << >>
    /\ hand_y_positions = << >>
    /\ response = NoResponse
    /\ delivered = << >>
    /\ frames = 0
    /\ appended = NoAppended

InitLogic == InitProcessor /\ measured = NoMeasure

Tick ==
    /\ now < StartTime + MaxTime
    /\ now' = now + 1
    /\ UNCHANGED <<engine, op, run, blinks, procVars, appVars>>

CallUpdateAttention ==
    \E f \in BOOLEAN, yaw \in YawValues, pitch \in PitchValues :
        /\ engine' = update_attention(engine, now, f, yaw, pitch)
        /\ op' = [name |-> "update_attention", args |-> <<f>>, t |-> now]
        /\ run' = RunAfter(run, now, f, Len(NewCalls(engine, engine')))
        /\ UNCHANGED <<now, blinks, procVars, appVars>>

NextAttention == Tick \/ CallUpdateAttention

SpecAttention == InitLogic /\ [][NextAttention]_vars

CallBlink ==
    \E ear \in EarValues :
        /\ (ear < EAR_THRESHOLD /\ now >= engine.blink_cooldown_end_time)
               => engine._frames_eye_closed < MaxRun
        /\ engine' = detect_and_register_blink(engine, now, ear)
        /\ op' = [name |-> "detect_and_register_blink", args |-> <<ear>>, t |-> now]
        /\ blinks' = BlinksAfter(blinks, engine, now, ear)
        /\ UNCHANGED <<now, run, procVars, appVars>>

NextBlink == Tick \/ CallBlink

SpecBlink == InitLogic /\ [][NextBlink]_vars

\* line 107: the call takes the raise path
RaisePath(E, t, is_hand_raised_now) ==
    is_hand_raised_now /\ t - E.last_hand_raised_log_time > HAND_RAISE_COOLDOWN_SECONDS

CallHand ==
    \E raised \in BOOLEAN, std \in StdValues :
        /\ (~RaisePath(engine, now, raised) /\ now >= engine.hand_cooldown_end_time)
               => Len(engine.hand_events_deque) < MaxSamples
        /\ engine' = register_hand_event(engine, now, raised, std)
        /\ op' = [name |-> "register_hand_event", args |-> <<raised, std>>, t |-> now]
        /\ UNCHANGED <<now, run, blinks, procVars, appVars>>

NextHand == Tick \/ CallHand

SpecHand == InitLogic /\ [][NextHand]_vars

CallYawn ==
    \E mar \in MarValues :
        /\ (mar > MAR_THRESHOLD /\ now >= engine.yawn_cooldown_end_time)
               => engine._frames_mouth_open < MaxRun
        /\ engine' = detect_and_register_yawn(engine, now, mar)
        /\ op' = [name |-> "detect_and_register_yawn", args |-> <<mar>>, t |-> now]
        /\ UNCHANGED <<now, run, blinks, procVars, appVars>>

\* the calls of a run are all made on one detector, named by the first
OnlyCalls(name) == op.name \in {"init", name}

\* each detector exercised on its own, the clock advancing between calls
NextDetector ==
    \/ Tick
    \/ OnlyCalls("detect_and_register_blink") /\ CallBlink
    \/ OnlyCalls("detect_and_register_yawn") /\ CallYawn
    \/ OnlyCalls("register_hand_event") /\ CallHand

SpecDetector == InitLogic /\ [][NextDetector]_vars

\* the measurements of one frame, as the engine's four methods take them:
\* the eyes are closed with the mouth shut, or open with the mouth open
RoundInputs ==
    [focused : BOOLEAN, yaw : {30}, pitch : {100}, ear : {10}, mar : {30},
     raised : BOOLEAN, std : {6}]
        \cup [focused : BOOLEAN, yaw : {30}, pitch : {100}, ear : {30},
              mar : {70}, raised : BOOLEAN, std : {6}]

Detectors == {"attention", "blink", "yawn", "hand"}

\* the orders in which the four methods can be called
Orders ==
    { o \in [1..4 -> Detectors] : \A i, j \in 1..4 : o[i] = o[j] => i = j }

\* the order process_frame_bytes calls them in (lines 67, 68, 72, 108)
FrameOrder == <<"blink", "yawn", "attention", "hand">>

\* one method called on E at clock reading t
call_detector(E, t, inp, d) ==
    CASE d = "attention" ->
             update_attention(E, t, inp.focused, inp.yaw, inp.pitch)
      [] d = "blink" -> detect_and_register_blink(E, t, inp.ear)
      [] d = "yawn" -> detect_and_register_yawn(E, t, inp.mar)
      [] d = "hand" -> register_hand_event(E, t, inp.raised, inp.std)

\* the four methods called on E in the order o, all reading the clock at t
call_in_order(E, t, inp, o) ==
    call_detector(call_detector(call_detector(call_detector(
        E, t, inp, o[1]), t, inp, o[2]), t, inp, o[3]), t, inp, o[4])

\* one round: a moment or two seconds after the round before, the four
\* methods are called once each, in the order process_frame_bytes calls them
Round ==
    \E inp \in RoundInputs, t \in {now, now + 2} :
        /\ frames < MaxRounds
        /\ t <= StartTime + MaxTime
        /\ (inp.ear < EAR_THRESHOLD /\ t >= engine.blink_cooldown_end_time)
               => engine._frames_eye_closed < MaxRun
        /\ (inp.mar > MAR_THRESHOLD /\ t >= engine.yawn_cooldown_end_time)
               => engine._frames_mouth_open < MaxRun
        /\ Len(engine.hand_events_deque) < MaxSamples
        /\ engine' = call_in_order(engine, t, inp, FrameOrder)
        /\ now' = t
        /\ frames' = frames + 1
        /\ op' = [name |-> "round", args |-> <<inp>>, t |-> t]
        /\ UNCHANGED <<run, blinks, ear_history, mar_history,
                       hand_y_positions, response, delivered, appended,
                       measured, appVars>>

NextRound == Round

SpecRound == InitLogic /\ [][NextRound]_vars

\* a contour of landmarks is at hand
InitMeasure ==
    /\ InitProcessor
    /\ measured \in [fn : {"none"}, contour : Contours, result : {Returned(0)}]

\* video_processor.py lines 64-65: the contour is measured
MeasureEye ==
    /\ measured.fn = "none"
    /\ measured' = [measured EXCEPT
                        !.fn = "get_eye_aspect_ratio",
                        !.result = get_eye_aspect_ratio(measured.contour)]
    /\ UNCHANGED <<engine, now, op, run, blinks, ear_history, mar_history,
                   hand_y_positions, response, delivered, frames,
                   appended, appVars>>

MeasureMouth ==
    /\ measured.fn = "none"
    /\ measured' = [measured EXCEPT
                        !.fn = "get_mouth_aspect_ratio",
                        !.result = get_mouth_aspect_ratio(measured.contour)]
    /\ UNCHANGED <<engine, now, op, run, blinks, ear_history, mar_history,
                   hand_y_positions, response, delivered, frames,
                   appended, appVars>>

NextMeasure == MeasureEye \/ MeasureMouth

SpecMeasure == InitMeasure /\ [][NextMeasure]_vars

\* both fatigue detectors fed the same activity at the same clock reading:
\* the eyes closed exactly when the mouth is open
CallBoth ==
    \E active \in BOOLEAN :
        \E ear \in {e \in EarValues : (e < EAR_THRESHOLD) = active},
           mar \in {m \in MarValues : (m > MAR_THRESHOLD) = active} :
            /\ (active /\ now >= engine.blink_cooldown_end_time)
                   => engine._frames_eye_closed < MaxRun
            /\ (active /\ now >= engine.yawn_cooldown_end_time)
                   => engine._frames_mouth_open < MaxRun
            /\ engine' = detect_and_register_yawn(
                              detect_and_register_blink(engine, now, ear),
                              now, mar)
            /\ op' = [name |-> "both", args |-> <<ear, mar>>, t |-> now]
            /\ UNCHANGED <<now, run, blinks, procVars, appVars>>

NextBoth == Tick \/ CallBoth

SpecBoth == InitLogic /\ [][NextBoth]_vars

(***************************************************************************)
(* One VideoProcessor given frames one at a time.                          *)
(***************************************************************************)
WristValues == {10, 50}

Undecodable ==
    [decodable |-> FALSE, face |-> FALSE, ear |-> 0, mar |-> 0, pitch |-> 0,
     yaw |-> 0, eye_y |-> 0, hand |-> FALSE, wrist_y |-> 0,
     pose_success |-> TRUE]

NoFace ==
    [face |-> FALSE, ear |-> 0, mar |-> 0, pitch |-> 0, yaw |-> 0, eye_y |-> 0,
     pose_success |-> TRUE]

NoHand == [hand |-> FALSE, wrist_y |-> 0]

\* a face looking at the camera with eyes open and mouth shut
RestingFace ==
    [face |-> TRUE, ear |-> 30, mar |-> 30, pitch |-> 100, yaw |-> 0, eye_y |-> 50,
     pose_success |-> TRUE]

\* the faces: eyes and mouth vary on a face looking at the camera, the head
\* pose varies on a face with eyes open and mouth shut
FaceParts ==
    { [RestingFace EXCEPT !.ear = e, !.mar = m] : e \in EarValues, m \in MarValues }
        \cup { [RestingFace EXCEPT !.pitch = p, !.yaw = y] :
                  p \in PitchValues, y \in YawValues }
        \cup {NoFace}

HandParts == [hand : {TRUE}, wrist_y : WristValues] \cup {NoHand}

DecodedFrame(f, h) ==
    [decodable |-> TRUE, face |-> f.face, ear |-> f.ear, mar |-> f.mar,
     pitch |-> f.pitch, yaw |-> f.yaw, eye_y |-> f.eye_y, hand |-> h.hand,
     wrist_y |-> h.wrist_y, pose_success |-> f.pose_success]

\* a hand is seen with the resting face or with no face
Frames ==
    {Undecodable}
        \cup { DecodedFrame(f, NoHand) : f \in FaceParts }
        \cup { DecodedFrame(f, h) : f \in {RestingFace, NoFace}, h \in HandParts }

\* the six clock readings of a frame, t being the last reading of the frame
\* before: the frame comes at once or two seconds later and reads one time
\* throughout, or the clock advances by one second once the engine's fatigue
\* and attention updates are made
ClockReads(t) ==
    { [i \in 1..6 |-> t + g] : g \in {0, 2} }
        \cup { [i \in 1..6 |-> IF i >= 4 THEN t + 1 ELSE t] }

FormatEvents(cs) ==
    [i \in 1..Len(cs) |->
        <<FormatTime(cs[i].timestamp), cs[i].event_type, cs[i].description, "">>]

\* one call of process_frame_bytes on a frame of FS, limit bounding the calls
ProcessFrameAt(FS, limit, RS) ==
    \E frame \in FS, reads \in RS :
        /\ frames < limit
        /\ reads[6] <= StartTime + MaxTime
        /\ (frame.decodable /\ frame.face /\ frame.ear < EAR_THRESHOLD
                /\ reads[1] >= engine.blink_cooldown_end_time)
               => engine._frames_eye_closed < MaxRun
        /\ (frame.decodable /\ frame.face /\ frame.mar > MAR_THRESHOLD
                /\ reads[2] >= engine.yawn_cooldown_end_time)
               => engine._frames_mouth_open < MaxRun
        /\ Len(engine.hand_events_deque) < MaxSamples
        /\ \E R \in { process_frame_bytes(
                          [engine |-> engine, ear_history |-> ear_history,
                           mar_history |-> mar_history,
                           hand_y_positions |-> hand_y_positions],
                          frame, reads) } :
               /\ engine' = R.engine
               /\ ear_history' = R.ear_history
               /\ mar_history' = R.mar_history
               /\ hand_y_positions' = R.hand_y_positions
               /\ response' = R.response
               /\ delivered' = IF frame.decodable
                               THEN delivered \o R.response.events_logged
                               ELSE delivered
        /\ now' = reads[6]
        /\ frames' = frames + 1
        /\ op' = [name |-> "process_frame_bytes", args |-> <<frame, reads>>,
                  t |-> now]
        /\ UNCHANGED <<run, blinks, measured, appVars>>

\* a frame of FS, read at one of the clock patterns
ProcessFrameOf(FS, limit) ==
    /\ ProcessFrameAt(FS, limit, ClockReads(now))
    /\ UNCHANGED appended

ProcessFrame == ProcessFrameOf(Frames, MaxFrames)

Next == ProcessFrame

Spec == InitLogic /\ [][Next]_vars

\* a face looking at the camera, eyes and mouth opening and closing, no hand
FaceFrames ==
    { DecodedFrame([RestingFace EXCEPT !.ear = e, !.mar = m], NoHand) :
          e \in EarValues, m \in MarValues }

ProcessFaceFrame == ProcessFrameOf(FaceFrames, MaxFaceFrames)

NextFace == ProcessFaceFrame

SpecFace == InitLogic /\ [][NextFace]_vars

\* frames on which every detector can log: a face that looks away with its
\* eyes closed and its mouth open (Drowsy) or with its eyes open and its
\* mouth shut (Away), the resting face, no face; a raised hand is seen with
\* the drowsy and with the resting face
Drowsy == [RestingFace EXCEPT !.ear = 10, !.mar = 70, !.pitch = -10]

Away == [RestingFace EXCEPT !.pitch = -10]

EventFrames ==
    { DecodedFrame(f, NoHand) : f \in {Drowsy, Away, RestingFace, NoFace} }
        \cup { DecodedFrame(f, [hand |-> TRUE, wrist_y |-> 10]) :
                   f \in {Drowsy, RestingFace} }

\* the frame comes at once and reads one time throughout, or the clock
\* advances by one second once the fatigue and attention updates are made
EventReads(t) ==
    { [i \in 1..6 |-> t], [i \in 1..6 |-> IF i >= 4 THEN t + 1 ELSE t] }

ProcessEventFrame ==
    /\ ProcessFrameAt(EventFrames, MaxFaceFrames, EventReads(now))
    /\ UNCHANGED appended

NextEvents == ProcessEventFrame

SpecEvents == InitLogic /\ [][NextEvents]_vars

\* a face whose pose solve converges or not; when it does not, the angles
\* get_head_pose returns are any of the pose values
PoseFrames ==
    { DecodedFrame([RestingFace EXCEPT !.pitch = p, !.yaw = y,
                                       !.pose_success = ok], NoHand) :
          p \in PitchValues, y \in YawValues, ok \in BOOLEAN }

ProcessPoseFrame == ProcessFrameOf(PoseFrames, MaxFrames)

NextPose == ProcessPoseFrame

SpecPose == InitLogic /\ [][NextPose]_vars

\* the exception that left the last process_frame_bytes call
LoggerRaised == [exception |-> "logger"]

\* frames that tell the values of the histories apart: eyes open and mouth
\* shut at two openings, a hand raised above the eyes or held below them,
\* and the frames without a face; the raised hand starts the hand cooldown,
\* in which the frames that follow at the same clock reading add no sample
RingFrames ==
    { DecodedFrame([RestingFace EXCEPT !.ear = 30 + d, !.mar = 30 + d],
                   [hand |-> TRUE, wrist_y |-> w]) :
          d \in {0, 2}, w \in WristValues }
        \cup { DecodedFrame(RestingFace, NoHand),
               DecodedFrame(NoFace, NoHand),
               DecodedFrame(NoFace, [hand |-> TRUE, wrist_y |-> 10]) }

\* enough frames to overfill every history by two values
MaxRingFrames == HandYMaxLen + 2

\* one frame after the other, the clock standing still
ProcessRingFrame ==
    /\ ProcessFrameAt(RingFrames, MaxRingFrames, {[i \in 1..6 |-> now]})
    /\ appended' = AppendedAfter(appended, op'.args[1])

NextRing == ProcessRingFrame

SpecRing == InitLogic /\ [][NextRing]_vars

\* a face or none, and no hand or a hand held at one of two heights below
\* the eyes that lie far enough apart to count as motion
MotionFrames ==
    { DecodedFrame(f, h) :
          f \in {RestingFace, NoFace},
          h \in {NoHand} \cup [hand : {TRUE}, wrist_y : {50, 70}] }

\* one frame after the other, at once or two seconds later
ProcessMotionFrame ==
    /\ ProcessFrameAt(MotionFrames, MaxRingFrames,
                      { [i \in 1..6 |-> now + g] : g \in {0, 2} })
    /\ appended' = AppendedAfter(appended, op'.args[1])

NextMotion == ProcessMotionFrame

SpecMotion == InitLogic /\ [][NextMotion]_vars

\* one call of process_frame_bytes that reaches a logger call, the logging
\* callback raising
ProcessFrameLoggerRaising ==
    \E frame \in Frames, reads \in ClockReads(now) :
        /\ frames < MaxFrames
        /\ reads[6] <= StartTime + MaxTime
        /\ \E R \in { process_frame_bytes_logger_raising(
                          [engine |-> engine, ear_history |-> ear_history,
                           mar_history |-> mar_history,
                           hand_y_positions |-> hand_y_positions],
                          frame, reads) } :
               /\ R.raised
               /\ engine' = R.engine
               /\ ear_history' = R.ear_history
               /\ mar_history' = R.mar_history
               /\ hand_y_positions' = R.hand_y_positions
        /\ response' = LoggerRaised
        /\ now' = reads[6]
        /\ frames' = frames + 1
        /\ op' = [name |-> "process_frame_bytes", args |-> <<frame, reads>>,
                  t |-> now]
        /\ UNCHANGED <<delivered, appended, measured, run, blinks, appVars>>

\* a caller releases the processor; each session's close() succeeds or raises
Release ==
    \E path \in ReleasePaths, fails \in BOOLEAN \X BOOLEAN :
        /\ release.calls < MaxReleases
        /\ \E R \in { release_on(path, sessions, fails) } :
               /\ sessions' = R.sessions
               /\ release' = [calls |-> release.calls + 1, path |-> path,
                              fails |-> fails, before |-> sessions,
                              close_raised |-> R.close_raised,
                              continued |-> R.continued]
        /\ UNCHANGED <<engine, now, op, run, blinks, procVars,
                       video_processors, last_active, processors_lock,
                       connections, instances, cleanup_task, shutdown,
                       analyze>>

NextRelease == Release

SpecRelease == InitLogic /\ [][NextRelease]_vars

NextLogger == ProcessFrame \/ ProcessFrameLoggerRaising

SpecLogger == InitLogic /\ [][NextLogger]_vars

(***************************************************************************)
(* The registry: connections, the cleanup loop and shutdown.               *)
(***************************************************************************)
logicVars == <<engine, op, run, blinks, procVars>>

\* time passes: the idle timeout exactly, or a second more
Elapse ==
    \E d \in {PROCESSOR_IDLE_TIMEOUT, PROCESSOR_IDLE_TIMEOUT + 1} :
        /\ now + d <= StartTime + MaxWall
        /\ now' = now + d
        /\ UNCHANGED <<logicVars, appVars>>

\* lines 296-297: await websocket.accept(); proc = None
Accept(c) ==
    \E participant_id \in ParticipantIds :
        /\ connections[c].pc = "new"
        /\ connections' = [connections EXCEPT
                               ![c] = [pc |-> "get_proc",
                                       participant_id |-> participant_id,
                                       proc |-> 0]]
        /\ UNCHANGED <<now, logicVars, closeVars, analyze, video_processors, last_active,
                       processors_lock, instances, cleanup_task, shutdown>>

\* lines 300-307: under the lock, fetch the participant's processor or
\* create and register one; stamp last_active
GetOrCreateProcessor(c) ==
    LET participant_id == connections[c].participant_id
        found == Get(video_processors, participant_id)
        proc == IF found = 0 THEN c ELSE found
    IN  /\ connections[c].pc = "get_proc"
        /\ processors_lock = "free"
        /\ instances' = IF found = 0
                        THEN [instances EXCEPT ![c].state = "open"]
                        ELSE instances
        /\ video_processors' = Put(video_processors, participant_id, proc)
        /\ last_active' = Put(last_active, participant_id, now)
        /\ connections' = [connections EXCEPT ![c].pc = "receive",
                                              ![c].proc = proc]
        /\ UNCHANGED <<now, logicVars, closeVars, analyze, processors_lock, cleanup_task,
                       shutdown>>

\* lines 311-315: await websocket.receive_bytes() returns a frame, or raises
\* WebSocketDisconnect, or raises another exception
ReceiveBytes(c) ==
    \E outcome \in {"touch", "on_disconnect", "on_error"} :
        /\ connections[c].pc = "receive"
        /\ connections' = [connections EXCEPT ![c].pc = outcome]
        /\ UNCHANGED <<now, logicVars, closeVars, analyze, video_processors, last_active,
                       processors_lock, instances, cleanup_task, shutdown>>

\* lines 318-319: under the lock, last_active[participant_id] = time.time()
TouchLastActive(c) ==
    /\ connections[c].pc = "touch"
    /\ processors_lock = "free"
    /\ last_active' = Put(last_active, connections[c].participant_id, now)
    /\ connections' = [connections EXCEPT ![c].pc = "process"]
    /\ UNCHANGED <<now, logicVars, closeVars, analyze, video_processors, processors_lock,
                   instances, cleanup_task, shutdown>>

\* line 323: asyncio.to_thread starts proc.process_frame_bytes in a worker
\* thread
BeginProcessFrame(c) ==
    /\ connections[c].pc = "process"
    /\ instances' = [instances EXCEPT
                         ![connections[c].proc].running = @ \cup {c}]
    /\ connections' = [connections EXCEPT ![c].pc = "in_thread"]
    /\ UNCHANGED <<now, logicVars, closeVars, analyze, video_processors, last_active,
                   processors_lock, cleanup_task, shutdown>>

\* lines 323-327: the worker thread returns the result, or raises and the
\* handler sends {"error": ...} and continues with the next frame
EndProcessFrame(c) ==
    \E outcome \in {"respond", "receive"} :
        /\ connections[c].pc = "in_thread"
        /\ instances' = [instances EXCEPT
                             ![connections[c].proc].running = @ \ {c}]
        /\ connections' = [connections EXCEPT ![c].pc = outcome]
        /\ UNCHANGED <<now, logicVars, closeVars, analyze, video_processors, last_active,
                       processors_lock, cleanup_task, shutdown>>

\* lines 330-362: db_writer (a failure is reported as db_error), then the
\* analysis result is sent
Respond(c) ==
    /\ connections[c].pc = "respond"
    /\ connections' = [connections EXCEPT ![c].pc = "receive"]
    /\ UNCHANGED <<now, logicVars, closeVars, analyze, video_processors, last_active,
                   processors_lock, instances, cleanup_task, shutdown>>

\* lines 364-368 and 375-381: under the lock, pop participant_id from both
\* maps; proc becomes what video_processors held
HandlerPop(c) ==
    LET participant_id == connections[c].participant_id
        proc == Get(video_processors, participant_id)
    IN  /\ connections[c].pc \in {"on_disconnect", "on_error"}
        /\ processors_lock = "free"
        /\ video_processors' = Pop(video_processors, participant_id)
        /\ last_active' = Pop(last_active, participant_id)
        /\ connections' = [connections EXCEPT
                               ![c].pc = IF proc = 0 THEN "done" ELSE "close",
                               ![c].proc = proc]
        /\ UNCHANGED <<now, logicVars, closeVars, analyze, processors_lock, instances,
                       cleanup_task, shutdown>>

\* lines 369-374 and 382-389: await _close_processor(proc); the handler ends
HandlerClose(c) ==
    /\ connections[c].pc = "close"
    /\ instances' = close(instances, connections[c].proc)
    /\ connections' = [connections EXCEPT ![c].pc = "done"]
    /\ UNCHANGED <<now, logicVars, closeVars, analyze, video_processors, last_active,
                   processors_lock, cleanup_task, shutdown>>

\* a sweep that also lists the participants idle for exactly the timeout
SweepBegin_at_timeout ==
    /\ cleanup_task.pc = "sleep"
    /\ processors_lock = "free"
    /\ processors_lock' = "cleanup"
    /\ cleanup_task' =
           [pc |-> "evicting",
            evict |-> { pid \in DOMAIN last_active :
                           now - last_active[pid] >= PROCESSOR_IDLE_TIMEOUT }]
    /\ UNCHANGED <<now, logicVars, closeVars, analyze, video_processors, last_active,
                   connections, instances, shutdown>>

\* lines 74-79: a sweep takes the lock and lists the participants idle for
\* longer than PROCESSOR_IDLE_TIMEOUT
SweepBegin ==
    /\ cleanup_task.pc = "sleep"
    /\ processors_lock = "free"
    /\ processors_lock' = "cleanup"
    /\ cleanup_task' =
           [pc |-> "evicting",
            evict |-> { pid \in DOMAIN last_active :
                           now - last_active[pid] > PROCESSOR_IDLE_TIMEOUT }]
    /\ UNCHANGED <<now, logicVars, closeVars, analyze, video_processors, last_active,
                   connections, instances, shutdown>>

\* lines 80-88: the next listed participant is popped from both maps and its
\* processor, if any, is closed, the lock being held
EvictOne ==
    \E pid \in cleanup_task.evict :
        /\ cleanup_task.pc = "evicting"
        /\ instances' = close(instances, Get(video_processors, pid))
        /\ video_processors' = Pop(video_processors, pid)
        /\ last_active' = Pop(last_active, pid)
        /\ cleanup_task' = [cleanup_task EXCEPT !.evict = @ \ {pid}]
        /\ UNCHANGED <<now, logicVars, closeVars, analyze, processors_lock, connections,
                       shutdown>>

\* lines 78-89: the sweep is over, the lock is released, the loop sleeps
SweepEnd ==
    /\ cleanup_task.pc = "evicting"
    /\ cleanup_task.evict = {}
    /\ processors_lock' = "free"
    /\ cleanup_task' = [cleanup_task EXCEPT !.pc = "sleep"]
    /\ UNCHANGED <<now, logicVars, closeVars, analyze, video_processors, last_active,
                   connections, instances, shutdown>>

\* lines 49-57: shutdown cancels the cleanup task (which lets go of the lock
\* wherever it was) and takes the lock
ShutdownBegin ==
    /\ shutdown = "running"
    /\ processors_lock \in {"free", "cleanup"}
    /\ cleanup_task' = [pc |-> "cancelled", evict |-> {}]
    /\ processors_lock' = "shutdown"
    /\ shutdown' = "closing"
    /\ UNCHANGED <<now, logicVars, closeVars, analyze, video_processors, last_active,
                   connections, instances>>

\* lines 58-64: each remaining processor is closed and popped from both maps
ShutdownCloseOne ==
    \E pid \in DOMAIN video_processors :
        /\ shutdown = "closing"
        /\ instances' = close(instances, video_processors[pid])
        /\ video_processors' = Pop(video_processors, pid)
        /\ last_active' = Pop(last_active, pid)
        /\ UNCHANGED <<now, logicVars, closeVars, analyze, processors_lock, connections,
                       cleanup_task, shutdown>>

\* lines 57-65: all processors closed, the lock is released
ShutdownEnd ==
    /\ shutdown = "closing"
    /\ DOMAIN video_processors = {}
    /\ processors_lock' = "free"
    /\ shutdown' = "done"
    /\ UNCHANGED <<now, logicVars, closeVars, analyze, video_processors, last_active,
                   connections, instances, cleanup_task>>

NextApp ==
    \/ Elapse
    \/ \E c \in Connections :
           \/ Accept(c)
           \/ GetOrCreateProcessor(c)
           \/ ReceiveBytes(c)
           \/ TouchLastActive(c)
           \/ BeginProcessFrame(c)
           \/ EndProcessFrame(c)
           \/ Respond(c)
           \/ HandlerPop(c)
           \/ HandlerClose(c)
    \/ SweepBegin
    \/ EvictOne
    \/ SweepEnd
    \/ ShutdownBegin
    \/ ShutdownCloseOne
    \/ ShutdownEnd

SpecApp == InitLogic /\ [][NextApp]_vars

(***************************************************************************)
(* The receive loop of /ws/frames (lines 309-362) with what it sends: op   *)
(* records, for the step a handler has just made, the exception caught and *)
(* the messages sent to the client, each named by its key.                 *)
(***************************************************************************)
frameVars ==
    <<now, engine, run, blinks, procVars, closeVars, analyze, video_processors,
      last_active, processors_lock, cleanup_task, shutdown>>

\* lines 321-327: the worker thread returns the result, or raises and the
\* handler sends {"error": str(e)} and continues with the next frame
FrameProcessed(c) ==
    \E raised \in BOOLEAN :
        /\ connections[c].pc = "in_thread"
        /\ instances' = [instances EXCEPT
                             ![connections[c].proc].running = @ \ {c}]
        /\ connections' = [connections EXCEPT
                               ![c].pc = IF raised THEN "receive" ELSE "respond"]
        /\ op' = [name |-> "process_frame_bytes",
                  args |-> <<raised, IF raised THEN <<"error">> ELSE << >> >>,
                  t |-> now]
        /\ UNCHANGED frameVars

\* what lines 329-362 send: the writer succeeds; or it raises and
\* {"db_error": str(e)} is sent, or that send raises too and is dropped
\* (356-359); then {"participant_id": ..., "analysis": result} is sent
WriterOutcomes ==
    { <<FALSE, <<"analysis">> >>,
      <<TRUE, <<"db_error", "analysis">> >>,
      <<TRUE, <<"analysis">> >> }

\* a writer failure that ends the frame once db_error is sent
ResultSent_unless_writer_failed(c) ==
    \E outcome \in WriterOutcomes :
        /\ connections[c].pc = "respond"
        /\ connections' = [connections EXCEPT ![c].pc = "receive"]
        /\ op' = [name |-> "db_writer",
                  args |-> <<outcome[1],
                             IF outcome[1] THEN <<"db_error">> ELSE outcome[2]>>,
                  t |-> now]
        /\ UNCHANGED <<frameVars, instances>>

\* lines 329-362: db_writer is awaited, its failure is reported and the
\* analysis result is sent; the handler goes back to receive_bytes
ResultSent(c) ==
    \E outcome \in WriterOutcomes :
        /\ connections[c].pc = "respond"
        /\ connections' = [connections EXCEPT ![c].pc = "receive"]
        /\ op' = [name |-> "db_writer", args |-> outcome, t |-> now]
        /\ UNCHANGED <<frameVars, instances>>

NextFrames ==
    \/ Elapse
    \/ \E c \in Connections :
           \/ Accept(c)
           \/ GetOrCreateProcessor(c)
           \/ ReceiveBytes(c)
           \/ TouchLastActive(c)
           \/ BeginProcessFrame(c)
           \/ FrameProcessed(c)
           \/ ResultSent(c)
           \/ HandlerPop(c)
           \/ HandlerClose(c)
    \/ SweepBegin
    \/ EvictOne
    \/ SweepEnd
    \/ ShutdownBegin
    \/ ShutdownCloseOne
    \/ ShutdownEnd

SpecFrames == InitLogic /\ [][NextFrames]_vars

(***************************************************************************)
(* /analyze_frame (lines 113-133): a one-off VideoProcessor per request.   *)
(***************************************************************************)
registryVars ==
    <<video_processors, last_active, processors_lock, connections, instances,
      cleanup_task, shutdown>>

\* a handler that leaves its processor open when process_frame_bytes raises
analyze_frame_close_on_success ==
    \E constructed \in BOOLEAN, raised \in BOOLEAN :
        /\ analyze' = IF ~constructed
                          THEN [proc |-> "none", raised |-> TRUE, closes |-> 0]
                          ELSE [proc |-> IF raised THEN "open" ELSE "closed",
                                raised |-> raised,
                                closes |-> IF raised THEN 0 ELSE 1]
        /\ UNCHANGED <<now, logicVars, closeVars, registryVars>>

\* lines 119-134: proc = None; VideoProcessor() is built, or raises and
\* leaves proc None; process_frame_bytes returns the result or raises; the
\* finally closes proc if it is set, dropping what close() raises; then the
\* result is returned or the exception ends the request
analyze_frame ==
    \E constructed \in BOOLEAN, raised \in BOOLEAN :
        /\ analyze' = IF ~constructed
                          THEN [proc |-> "none", raised |-> TRUE, closes |-> 0]
                          ELSE [proc |-> "closed", raised |-> raised,
                                closes |-> 1]
        /\ UNCHANGED <<now, logicVars, closeVars, registryVars>>

NextLifecycle ==
    \/ NextApp
    \/ analyze_frame

\* line 312 raises: the connection has ended
ConnectionEnds(c) == ReceiveBytes(c) /\ connections'[c].pc # "touch"

\* the steps a handler takes once it has its processor, the receive apart
HandlerStep(c) ==
    \/ TouchLastActive(c)
    \/ BeginProcessFrame(c)
    \/ EndProcessFrame(c)
    \/ Respond(c)
    \/ HandlerPop(c)
    \/ HandlerClose(c)

\* every task goes on when it can: a handler waiting for processors_lock
\* gets it in its turn (asyncio.Lock wakes its waiters in order), the worker
\* threads return, the sweep and shutdown finish what they began; and no
\* connection stays open for ever
SpecLifecycle ==
    /\ InitLogic
    /\ [][NextLifecycle]_vars
    /\ \A c \in Connections :
           SF_vars(ConnectionEnds(c)) /\ SF_vars(HandlerStep(c))
    /\ WF_vars(EvictOne \/ SweepEnd \/ ShutdownCloseOne \/ ShutdownEnd)

\* lines 71-89: the cleanup loop is a task of its own that sweeps, sleeps ten
\* seconds and sweeps again for as long as it is not cancelled; the lock it
\* waits for is held by others only between two awaits
SpecAppFair ==
    /\ SpecApp
    /\ WF_vars(SweepBegin)
    /\ WF_vars(EvictOne)
    /\ WF_vars(SweepEnd)

(***************************************************************************)
(* Claims about update_attention                                           *)
(***************************************************************************)
DistractedDescriptions ==
    { distraction_description(d) :
        d \in {"", "sideways", "down", "up", "sideways and down", "sideways and up"} }

AttentionState == engine._current_attention_state

\* a step that is a call of update_attention (the clock stands still in it)
AttentionCall == now' = now /\ op'.name = "update_attention"

\* C1: a run of unfocused calls that starts in Focused logs exactly one
\* "Distracted..." event, at the first call whose clock reading is
\* ATTENTION_CONSISTENCY_SECONDS or more past the run's first call, however
\* many unfocused calls follow; Logged_Distraction leaves the engine unchanged
\* on an unfocused call; the first focused call after it logs exactly one
\* Attention event "Focused" and returns the state to Focused.
C1_OneDistractedOneFocused ==
    /\ [](run.open =>
            /\ AttentionState = "Logged_Distraction" => run.logged = 1
            /\ AttentionState = "Distracted" =>
                    /\ run.logged = 0
                    /\ op.t - run.first < ATTENTION_CONSISTENCY_SECONDS
            /\ AttentionState # "Focused")
    /\ [][AttentionCall =>
            LET f   == op'.args[1]
                new == NewCalls(engine, engine')
            IN  /\ (AttentionState = "Logged_Distraction" /\ ~f) => engine' = engine
                /\ (AttentionState = "Distracted" /\ ~f
                        /\ now - engine._distraction_start_time
                               >= ATTENTION_CONSISTENCY_SECONDS) =>
                        /\ Len(new) = 1
                        /\ new[1].event_type = "Attention"
                        /\ new[1].description \in DistractedDescriptions
                        /\ new[1].timestamp = now
                        /\ engine'._current_attention_state = "Logged_Distraction"
                /\ (AttentionState = "Logged_Distraction" /\ f) =>
                        /\ new = <<[event_type |-> "Attention",
                                    description |-> "Focused",
                                    timestamp |-> now]>>
                        /\ engine'._current_attention_state = "Focused"
       ]_vars

\* a run of unfocused calls that logged one event, went on for MaxCalls more
\* unfocused calls and was ended by a focused call that logged "Focused"
C1_Witness ==
    /\ ~run.open /\ run.idle = MaxCalls /\ run.logged = 1 /\ run.closing = 1
    /\ AttentionState = "Focused"
    /\ Len(engine.calls) >= 2
    /\ engine.calls[Len(engine.calls)].description = "Focused"
    /\ engine.calls[Len(engine.calls) - 1].description \in DistractedDescriptions

\* C2: unfocused calls whose clock readings stay less than
\* ATTENTION_CONSISTENCY_SECONDS past the run's first call leave the state
\* Distracted and log nothing, the focused call that follows logs nothing and
\* returns the state to Focused, and every run times itself from its own
\* first unfocused call.
C2_ShortDistractionSilent ==
    /\ [](run.open => engine._distraction_start_time = run.first)
    /\ []((run.open /\ op.t - run.first < ATTENTION_CONSISTENCY_SECONDS) =>
            (AttentionState = "Distracted" /\ run.logged = 0))
    /\ []((~run.open /\ run.logged = 0) =>
            (AttentionState = "Focused" /\ run.closing = 0))
    /\ [][AttentionCall =>
            LET f == op'.args[1]
            IN  /\ (AttentionState = "Focused" /\ ~f) =>
                        engine' = [engine EXCEPT
                                      !._distraction_start_time = now,
                                      !._current_attention_state = "Distracted"]
                /\ (AttentionState = "Distracted" /\ ~f
                        /\ now - run.first < ATTENTION_CONSISTENCY_SECONDS) =>
                        engine' = engine
                /\ (AttentionState = "Distracted" /\ f) =>
                        engine' = [engine EXCEPT
                                      !._current_attention_state = "Focused"]
       ]_vars

\* a third run of several unfocused calls, begun after the clock advanced,
\* that a focused call ended with nothing logged so far
C2_Witness ==
    /\ ~run.open /\ run.nth = MaxCalls /\ run.calls >= 2
    /\ run.logged = 0 /\ run.closing = 0
    /\ run.first > StartTime /\ op.t > run.first
    /\ engine._distraction_start_time = run.first
    /\ engine.calls = << >>
    /\ AttentionState = "Focused"

(***************************************************************************)
(* Claims about detect_and_register_blink                                  *)
(***************************************************************************)
BlinkCall == now' = now /\ op'.name = "detect_and_register_blink"

BlinkFatigue(t) ==
    [event_type |-> "Fatigue", description |-> "Blink: tired fatigue",
     timestamp |-> t]

\* the blinks of ts that lie within FATIGUE_BLINK_WINDOW_SECONDS of t
BlinksInWindow(ts, t) ==
    Cardinality({i \in 1..Len(ts) : t - ts[i] <= FATIGUE_BLINK_WINDOW_SECONDS})

\* C3: an open frame that ends a closure of EAR_CONSEC_FRAMES_CLOSED or more
\* frames logs exactly one Fatigue event "Blink: tired fatigue" when, with
\* it, FATIGUE_BLINK_COUNT blinks lie within FATIGUE_BLINK_WINDOW_SECONDS,
\* and starts the cooldown; no other call logs anything, none during the
\* cooldown; two blink Fatigue events are FATIGUE_BLINK_COOLDOWN_SECONDS or
\* more apart.
C3_OneFatiguePerCooldown ==
    /\ [](\A i, j \in 1..Len(engine.calls) :
            i < j => engine.calls[j].timestamp - engine.calls[i].timestamp
                        >= FATIGUE_BLINK_COOLDOWN_SECONDS)
    /\ [][BlinkCall =>
            LET new == NewCalls(engine, engine')
            IN  IF /\ Len(blinks'.times) > Len(blinks.times)
                   /\ BlinksInWindow(blinks'.times, now) >= FATIGUE_BLINK_COUNT
                THEN /\ new = <<BlinkFatigue(now)>>
                     /\ engine'.blink_cooldown_end_time
                            = now + FATIGUE_BLINK_COOLDOWN_SECONDS
                ELSE /\ new = << >>
                     /\ engine'.blink_cooldown_end_time
                            = engine.blink_cooldown_end_time
       ]_vars

\* one Fatigue event so far, and a whole blink pattern's worth of calls made
\* since, during its cooldown
C3_Witness ==
    /\ Len(engine.calls) = 1
    /\ engine.calls[1] = BlinkFatigue(engine.blink_cooldown_end_time
                                        - FATIGUE_BLINK_COOLDOWN_SECONDS)
    /\ now < engine.blink_cooldown_end_time
    /\ blinks.cooled >= EAR_CONSEC_FRAMES_CLOSED + 1
    /\ Len(blinks.times) = FATIGUE_BLINK_COUNT
    /\ op = [name |-> "detect_and_register_blink", args |-> <<30>>, t |-> now]

(***************************************************************************)
(* Claims about register_hand_event                                        *)
(***************************************************************************)
HandCall == now' = now /\ op'.name = "register_hand_event"

HandEvent(description, t) ==
    [event_type |-> "Hand Motion", description |-> description, timestamp |-> t]

\* C4: a call with is_hand_raised_now made more than
\* HAND_RAISE_COOLDOWN_SECONDS after the last logged raise logs exactly one
\* Hand Motion event "Hand Raised", also during the motion cooldown, sets
\* last_hand_raised_log_time to now and starts the motion cooldown; no call
\* made during a motion cooldown logs "Hand Detected", so that no "Hand
\* Detected" event follows a "Hand Raised" event by less than
\* HAND_MOVEMENT_COOLDOWN_SECONDS.
C4_RaiseLogsOnceAndSuppressesMotion ==
    /\ [](\A i, j \in 1..Len(engine.calls) :
            (i < j /\ engine.calls[i].description = "Hand Raised"
                   /\ engine.calls[j].description = "Hand Detected") =>
                engine.calls[j].timestamp
                    >= engine.calls[i].timestamp + HAND_MOVEMENT_COOLDOWN_SECONDS)
    /\ [][HandCall =>
            LET new == NewCalls(engine, engine')
            IN  /\ (op'.args[1] /\ now - engine.last_hand_raised_log_time
                                      > HAND_RAISE_COOLDOWN_SECONDS) =>
                        /\ new = <<HandEvent("Hand Raised", now)>>
                        /\ engine'.last_hand_raised_log_time = now
                        /\ engine'.hand_cooldown_end_time
                               = now + HAND_MOVEMENT_COOLDOWN_SECONDS
                /\ now < engine.hand_cooldown_end_time =>
                        \A k \in 1..Len(new) : new[k].description # "Hand Detected"
       ]_vars

\* "Hand Raised" logged during the motion cooldown that a "Hand Detected"
\* event started, and the next "Hand Detected" logged once the cooldown the
\* raise started was over
C4_Witness ==
    \E k \in 1..Len(engine.calls) :
        /\ k + 2 = Len(engine.calls)
        /\ engine.calls[k].description = "Hand Detected"
        /\ engine.calls[k + 1].description = "Hand Raised"
        /\ engine.calls[k + 1].timestamp
               < engine.calls[k].timestamp + HAND_MOVEMENT_COOLDOWN_SECONDS
        /\ engine.calls[k + 2].description = "Hand Detected"

\* the samples of q, with t appended, that are not older than
\* HAND_MOVEMENT_WINDOW_FRAMES / VIDEO_FPS_TARGET seconds at t
SamplesInWindow(q, t) ==
    LET Recent(x) == (t - x) * VIDEO_FPS_TARGET <= HAND_MOVEMENT_WINDOW_FRAMES
    IN  SelectSeq(Append(q, t), Recent)

\* C8: a call that does not take the raise path changes nothing and logs
\* nothing during the motion cooldown; otherwise it appends now to the
\* samples, drops those older than HAND_MOVEMENT_WINDOW_FRAMES /
\* VIDEO_FPS_TARGET seconds, and logs "Hand Detected" and starts the motion
\* cooldown exactly when the samples left number at least
\* HAND_MOVEMENT_WINDOW_FRAMES / VIDEO_FPS_TARGET and hand_positions_std
\* exceeds HAND_MOVEMENT_STD_THRESHOLD.
C8_MotionPath ==
    [][(HandCall /\ ~RaisePath(engine, now, op'.args[1])) =>
          IF now < engine.hand_cooldown_end_time
          THEN engine' = engine
          ELSE LET q == SamplesInWindow(engine.hand_events_deque, now)
                   E1 == [engine EXCEPT !.hand_events_deque = q]
               IN  IF /\ Len(q) * VIDEO_FPS_TARGET >= HAND_MOVEMENT_WINDOW_FRAMES
                      /\ op'.args[2] > HAND_MOVEMENT_STD_THRESHOLD
                   THEN /\ NewCalls(engine, engine')
                              = <<HandEvent("Hand Detected", now)>>
                        /\ engine' = [_log_event(E1, "Hand Motion", "Hand Detected", now)
                                         EXCEPT !.hand_cooldown_end_time =
                                             now + HAND_MOVEMENT_COOLDOWN_SECONDS]
                   ELSE engine' = E1
    ]_vars

\* a motion sample with a deviation above the threshold that logged nothing
\* for want of samples, old samples having been dropped, after an earlier
\* "Hand Detected"
C8_Witness ==
    /\ op = [name |-> "register_hand_event", args |-> <<FALSE, 6>>, t |-> now]
    /\ engine.hand_events_deque = <<now>>
    /\ now >= engine.hand_cooldown_end_time
    /\ Len(engine.calls) >= 1
    /\ engine.calls[Len(engine.calls)].description = "Hand Detected"

(***************************************************************************)
(* Claims about process_frame_bytes                                        *)
(***************************************************************************)
\* a step that is a call of process_frame_bytes; op' holds its frame
FrameCall == frames' = frames + 1 /\ op'.name = "process_frame_bytes"

\* C5: the events a process_frame_bytes call logs are the events_logged it
\* returns (none when it logs nothing, and an undecodable frame logs
\* nothing); every event logged so far has been returned in exactly one
\* result, in the order logged; logger.events is empty after every return.
C5_DrainDeliversOnce ==
    /\ [](engine.events = << >>)
    /\ [](delivered = FormatEvents(engine.calls))
    /\ [][FrameCall =>
            IF op'.args[1].decodable
            THEN response'.events_logged = FormatEvents(NewCalls(engine, engine'))
            ELSE NewCalls(engine, engine') = << >>
       ]_vars

\* two events were returned by earlier results, and the last frame, which
\* logged nothing, returned an empty events_logged
C5_Witness ==
    /\ Len(delivered) >= 2
    /\ op.name = "process_frame_bytes" /\ op.args[1].decodable
    /\ response.events_logged = << >>
    /\ engine.events = << >>

\* the description the claim gives a distraction logged at head pose
\* (pitch, yaw)
C7_Description(pitch, yaw) ==
    LET sideways == Abs(yaw) > ATTENTION_YAW_THRESHOLD
        vertical == IF Abs(pitch) < PITCH_FOCUSED_MIN_ABS_THRESHOLD
                    THEN (IF pitch > 0 THEN "down" ELSE "up")
                    ELSE ""
    IN  CASE sideways /\ vertical # "" ->
                 "Distracted (looking sideways and " \o vertical \o ")"
          [] sideways /\ vertical = "" -> "Distracted (looking sideways)"
          [] ~sideways /\ vertical # "" -> "Distracted (looking " \o vertical \o ")"
          [] OTHER -> "Distracted"

\* C7: a face frame with head pose (pitch, yaw) that takes the attention
\* state from Distracted to Logged_Distraction logs the description that
\* has "sideways" exactly when |yaw| > ATTENTION_YAW_THRESHOLD, "down"
\* exactly when |pitch| < PITCH_FOCUSED_MIN_ABS_THRESHOLD and pitch > 0, "up"
\* exactly when |pitch| < PITCH_FOCUSED_MIN_ABS_THRESHOLD and pitch <= 0.
C7_DescriptionFollowsPose ==
    [][(FrameCall /\ op'.args[1].decodable /\ op'.args[1].face
          /\ AttentionState = "Distracted"
          /\ engine'._current_attention_state = "Logged_Distraction") =>
            engine'.last_logged_attention_state
                = C7_Description(op'.args[1].pitch, op'.args[1].yaw)
    ]_vars

\* C9: a frame with no face returns attention_instant "No Face Detected" and
\* fatigue_instant "N/A", updates the attention state as
\* update_attention(False, 0, 0) does, and leaves ear_history, mar_history
\* and hand_y_positions empty, with or without a hand in the frame.
C9_NoFaceClearsHistories ==
    [][(FrameCall /\ op'.args[1].decodable /\ ~op'.args[1].face) =>
          LET E == update_attention(engine, op'.args[2][3], FALSE, 0, 0)
          IN  /\ response'.attention_instant = "No Face Detected"
              /\ response'.fatigue_instant = "N/A"
              /\ engine'._current_attention_state = E._current_attention_state
              /\ engine'._distraction_start_time = E._distraction_start_time
              /\ ear_history' = << >>
              /\ mar_history' = << >>
              /\ hand_y_positions' = << >>
    ]_vars

\* the frame's hand satisfies the raised condition: wrist y < 0.4 x eye y
C10_Raised(frame) ==
    /\ frame.hand
    /\ frame.wrist_y * 10 < (IF frame.face THEN frame.eye_y ELSE 50) * 4

\* C10: hand_instant is "Hand Raised" in every frame whose hand satisfies
\* the raised condition; "Hand Detected" when no hand is raised, the hand-y
\* buffer is full and its deviation exceeds the motion threshold; "No Hand
\* Detected" otherwise.
C10_RaisedOverridesDetected ==
    [][(FrameCall /\ op'.args[1].decodable) =>
          response'.hand_instant =
              IF C10_Raised(op'.args[1]) THEN "Hand Raised"
              ELSE IF /\ op'.args[1].hand
                      /\ Len(hand_y_positions') = HandYMaxLen
                      /\ np_std(hand_y_positions') > 4
                   THEN "Hand Detected"
                   ELSE "No Hand Detected"
    ]_vars

\* C11: in every face frame fatigue_instant is "Potential Fatigue" if the
\* eye is marked closed or the mouth marked open after the blink and yawn
\* updates; otherwise "Fatigue Detected" if the blink or the yawn cooldown
\* is still running at the reading taken for it; otherwise "Normal".
C11_FatigueLabelPrecedence ==
    [][(FrameCall /\ op'.args[1].decodable /\ op'.args[1].face) =>
          response'.fatigue_instant =
              IF engine'._is_eye_closed \/ engine'._is_mouth_open
              THEN "Potential Fatigue"
              ELSE IF \/ engine'.blink_cooldown_end_time > op'.args[2][4]
                      \/ engine'.yawn_cooldown_end_time > op'.args[2][5]
                   THEN "Fatigue Detected"
                   ELSE "Normal"
    ]_vars

\* the frame that started the blink cooldown also marked the mouth open:
\* the label is "Potential Fatigue" with the cooldown running
C11_Witness ==
    /\ op.name = "process_frame_bytes" /\ op.args[1].face
    /\ engine.blink_cooldown_end_time > op.args[2][4]
    /\ engine._is_mouth_open
    /\ response.fatigue_instant = "Potential Fatigue"

\* C12: a frame whose bytes cannot be decoded returns the error-tagged
\* result and changes nothing: the engine (attention, blink, yawn and hand
\* state, the logged events, the drain buffer) and the three histories are
\* as before the call.
C12_UndecodableChangesNothing ==
    [][(FrameCall /\ ~op'.args[1].decodable) =>
          /\ response' = [error |-> "could not decode frame"]
          /\ engine' = engine
          /\ ear_history' = ear_history
          /\ mar_history' = mar_history
          /\ hand_y_positions' = hand_y_positions
          /\ delivered' = delivered
    ]_vars

\* an undecodable frame came while a distraction was running and the
\* histories held samples
C12_Witness ==
    /\ op.name = "process_frame_bytes" /\ ~op.args[1].decodable
    /\ response = [error |-> "could not decode frame"]
    /\ engine._current_attention_state = "Distracted"
    /\ ear_history # << >>
    /\ hand_y_positions # << >>

\* the Attention events among the logged events cs
AttentionEvents(cs) == SelectSeq(cs, LAMBDA e : e.event_type = "Attention")

\* C13: a face frame whose pose solve does not converge returns a result
\* and skips attention classification: the attention state and
\* _distraction_start_time are as before the frame and no Attention event
\* is logged.
C13_UnsolvedPoseSkipsAttention ==
    [][(FrameCall /\ op'.args[1].decodable /\ op'.args[1].face
          /\ ~op'.args[1].pose_success) =>
          /\ "attention_instant" \in DOMAIN response'
          /\ engine'._current_attention_state = engine._current_attention_state
          /\ engine'._distraction_start_time = engine._distraction_start_time
          /\ AttentionEvents(NewCalls(engine, engine')) = << >>
    ]_vars

\* the detector state of an engine: every field but the logged events
DetectorState(E) == [E EXCEPT !.events = << >>, !.calls = << >>]

\* C14: when the logging callback raises during a frame, process_frame_bytes
\* still returns its labels, and the detectors end the frame in the state
\* they end it in when logging succeeds.
C14_LoggerFailureHarmless ==
    [][FrameCall =>
          \/ ~op'.args[1].decodable
          \/ LET R == process_frame_bytes(
                          [engine |-> engine, ear_history |-> ear_history,
                           mar_history |-> mar_history,
                           hand_y_positions |-> hand_y_positions],
                          op'.args[1], op'.args[2])
             IN  /\ "attention_instant" \in DOMAIN response'
                 /\ "fatigue_instant" \in DOMAIN response'
                 /\ "hand_instant" \in DOMAIN response'
                 /\ DetectorState(engine') = DetectorState(R.engine)
    ]_vars

(***************************************************************************)
(* Claims about the detectors' timestamp sequences                         *)
(***************************************************************************)
\* a step that is a call of one of the three detectors, at clock reading now
DetectorCall ==
    /\ now' = now
    /\ op'.name \in {"detect_and_register_blink", "detect_and_register_yawn",
                      "register_hand_event"}

NonDecreasing(q) == \A i \in 1..(Len(q) - 1) : q[i] <= q[i + 1]

\* no timestamp of q is older than num / den seconds at time t
InWindow(q, t, num, den) == \A i \in 1..Len(q) : (t - q[i]) * den <= num

\* C16 as stated: after every detector call each timestamp sequence is
\* non-decreasing and holds no timestamp older than its window relative to
\* that call's now.
C16_PrunedOnEveryCall ==
    [][DetectorCall =>
          /\ NonDecreasing(engine'.blink_events_deque)
          /\ NonDecreasing(engine'.yawn_events_deque)
          /\ NonDecreasing(engine'.hand_events_deque)
          /\ InWindow(engine'.blink_events_deque, now,
                      FATIGUE_BLINK_WINDOW_SECONDS, 1)
          /\ InWindow(engine'.yawn_events_deque, now,
                      FATIGUE_YAWN_WINDOW_SECONDS, 1)
          /\ InWindow(engine'.hand_events_deque, now,
                      HAND_MOVEMENT_WINDOW_FRAMES, VIDEO_FPS_TARGET)
    ]_vars

\* C16 amended: after every detector call each timestamp sequence is
\* non-decreasing; a sequence is changed only by a call that records a
\* timestamp in it, and it then ends with that call's now and holds no
\* timestamp older than its window relative to that now.
C16_PrunedOnEveryRecording ==
    [][DetectorCall =>
          /\ NonDecreasing(engine'.blink_events_deque)
          /\ NonDecreasing(engine'.yawn_events_deque)
          /\ NonDecreasing(engine'.hand_events_deque)
          /\ engine'.blink_events_deque # engine.blink_events_deque =>
                 /\ engine'.blink_events_deque[Len(engine'.blink_events_deque)] = now
                 /\ InWindow(engine'.blink_events_deque, now,
                             FATIGUE_BLINK_WINDOW_SECONDS, 1)
          /\ engine'.yawn_events_deque # engine.yawn_events_deque =>
                 /\ engine'.yawn_events_deque[Len(engine'.yawn_events_deque)] = now
                 /\ InWindow(engine'.yawn_events_deque, now,
                             FATIGUE_YAWN_WINDOW_SECONDS, 1)
          /\ engine'.hand_events_deque # engine.hand_events_deque =>
                 /\ engine'.hand_events_deque[Len(engine'.hand_events_deque)] = now
                 /\ InWindow(engine'.hand_events_deque, now,
                             HAND_MOVEMENT_WINDOW_FRAMES, VIDEO_FPS_TARGET)
    ]_vars

\* a second blink was recorded after the first had left the window: the
\* recording pruned the first
C16_Witness ==
    /\ op.name = "detect_and_register_blink"
    /\ Len(blinks.times) >= 2
    /\ blinks.times[Len(blinks.times)] = now
    /\ engine.blink_events_deque = <<now>>

(***************************************************************************)
(* Claims about the independence of the detectors                          *)
(***************************************************************************)
\* the fields each method owns
OwnFields(d) ==
    CASE d = "attention" -> {"_current_attention_state", "_distraction_start_time",
                             "last_logged_attention_state"}
      [] d = "blink" -> {"blink_events_deque", "blink_cooldown_end_time",
                         "_is_eye_closed", "_frames_eye_closed"}
      [] d = "yawn" -> {"yawn_events_deque", "yawn_cooldown_end_time",
                        "_is_mouth_open", "_frames_mouth_open"}
      [] d = "hand" -> {"hand_events_deque", "hand_cooldown_end_time",
                        "last_hand_raised_log_time"}

\* the fields of a detector: every field but the log
StateFields == UNION { OwnFields(d) : d \in Detectors }

\* the set of the events logged from E1 to E2
EventSet(E1, E2) == { NewCalls(E1, E2)[i] : i \in 1..Len(NewCalls(E1, E2)) }

\* the four methods called on E in the order o leave the detector state of
\* E_after and log the set of events logged from E to E_after
OrderAgrees(E, t, inp, o, E_after) ==
    \A E1 \in { call_detector(E, t, inp, o[1]) } :
    \A E2 \in { call_detector(E1, t, inp, o[2]) } :
    \A E3 \in { call_detector(E2, t, inp, o[3]) } :
    \A E4 \in { call_detector(E3, t, inp, o[4]) } :
        /\ DetectorState(E4) = DetectorState(E_after)
        /\ EventSet(E, E4) = EventSet(E, E_after)

\* C17: a method changes no field of another detector, and the four
\* methods called in any order on the same inputs at the same clock reading
\* leave the same engine state and log the same set of events.
C17_DetectorsIndependent ==
    [][(frames' = frames + 1 /\ op'.name = "round") =>
          /\ \A d \in Detectors :
                 \A E \in { call_detector(engine, op'.t, op'.args[1], d) } :
                     \A f \in StateFields \ OwnFields(d) : E[f] = engine[f]
          /\ \A o \in Orders :
                 OrderAgrees(engine, op'.t, op'.args[1], o, engine')
    ]_vars

\* a round in which a blink was recorded, the mouth opened, and both the
\* attention and the hand method logged an event
C17_Witness ==
    /\ op.name = "round"
    /\ engine.blink_events_deque = <<now>>
    /\ engine._frames_mouth_open = 1
    /\ Len(engine.calls) >= 2
    /\ engine.calls[Len(engine.calls)].event_type = "Hand Motion"
    /\ engine.calls[Len(engine.calls)].timestamp = now
    /\ engine.calls[Len(engine.calls) - 1].event_type = "Attention"
    /\ engine.calls[Len(engine.calls) - 1].timestamp = now

(***************************************************************************)
(* Claims about releasing a processor                                      *)
(***************************************************************************)
\* C15: close() returns normally however often it is called and whichever
\* session close raises, a close of a processor whose sessions are closed
\* leaves them closed, and every caller goes on after the release.
C15_ReleaseNeverPropagates ==
    /\ [](release.calls > 0 => ~release.close_raised /\ release.continued)
    /\ [][(release'.calls = release.calls + 1
             /\ sessions.mp_face_mesh = "closed" /\ sessions.mp_hands = "closed")
            => sessions' = sessions]_vars

\* a processor already closed is released again on the shutdown path, both
\* session closes raising
C15_Witness ==
    /\ release.calls >= 2
    /\ release.path = "shutdown"
    /\ release.before = [mp_face_mesh |-> "closed", mp_hands |-> "closed"]
    /\ release.fails = <<TRUE, TRUE>>
    /\ release.continued

(***************************************************************************)
(* Claims about the registry                                               *)
(***************************************************************************)
\* C6: no two process_frame_bytes invocations run at the same time on one
\* VideoProcessor instance, whatever the connections and their interleaving.
C6_FramesSerializedPerInstance ==
    \A i \in Connections : Cardinality(instances[i].running) <= 1

\* the entries of q equal to t
CountOf(q, t) == Cardinality({i \in 1..Len(q) : q[i] = t})

\* C18: blink debounce. A call of detect_and_register_blink records a blink
\* timestamp exactly when it is made outside the cooldown with an open eye
\* (ear >= EAR_THRESHOLD) directly after EAR_CONSEC_FRAMES_CLOSED or more
\* consecutive closed frames; it then records one timestamp, the clock
\* reading; the run is over with it, so no run records twice and a shorter
\* run records nothing; a closed frame outside the cooldown counts one more
\* frame; after every open frame the counter is 0 and the mark is clear.
C18_BlinkDebounce ==
    [][BlinkCall =>
          LET ear      == op'.args[1]
              cool     == now < engine.blink_cooldown_end_time
              q        == engine.blink_events_deque
              q2       == engine'.blink_events_deque
              recorded == q2 # q
          IN  /\ recorded <=> /\ ~cool
                              /\ ear >= EAR_THRESHOLD
                              /\ blinks.closed >= EAR_CONSEC_FRAMES_CLOSED
              /\ recorded => /\ CountOf(q2, now) = CountOf(q, now) + 1
                             /\ Len(q2) <= Len(q) + 1
                             /\ q2[Len(q2)] = now
              /\ ear >= EAR_THRESHOLD =>
                     /\ engine'._frames_eye_closed = 0
                     /\ ~engine'._is_eye_closed
              /\ (~cool /\ ear < EAR_THRESHOLD) =>
                     /\ engine'._frames_eye_closed = blinks.closed + 1
                     /\ engine'._is_eye_closed
                            = (blinks.closed + 1 >= EAR_CONSEC_FRAMES_CLOSED)
    ]_vars

\* an open frame has just recorded the second blink of the run of calls,
\* at a later clock reading than the first
C18_Witness ==
    /\ op.name = "detect_and_register_blink"
    /\ op.args[1] >= EAR_THRESHOLD
    /\ Len(blinks.times) = 2
    /\ blinks.times[1] < blinks.times[2]
    /\ blinks.times[2] = now
    /\ blinks.closed = 0
    /\ engine._frames_eye_closed = 0
    /\ ~engine._is_eye_closed
    /\ Len(engine.blink_events_deque) >= 1
    /\ engine.blink_events_deque[Len(engine.blink_events_deque)] = now

\* the blink detector's state and the clock readings of its Fatigue events
BlinkState(E) ==
    [frames   |-> E._frames_eye_closed,
     mark     |-> E._is_eye_closed,
     deque    |-> E.blink_events_deque,
     cooldown |-> E.blink_cooldown_end_time,
     fatigue  |-> SelectSeq(E.calls,
                      LAMBDA c : c.description = "Blink: tired fatigue")]

\* the yawn detector's, under the renaming of fields and description
YawnState(E) ==
    [frames   |-> E._frames_mouth_open,
     mark     |-> E._is_mouth_open,
     deque    |-> E.yawn_events_deque,
     cooldown |-> E.yawn_cooldown_end_time,
     fatigue  |-> LET ys == SelectSeq(E.calls,
                                LAMBDA c : c.description = "Yawning")
                  IN  [i \in 1..Len(ys) |->
                          [ys[i] EXCEPT !.description = "Blink: tired fatigue"]]]

YawnFatigue(t) ==
    [event_type |-> "Fatigue", description |-> "Yawning", timestamp |-> t]

\* C19: fed the same activity (mar > MAR_THRESHOLD exactly when
\* ear < EAR_THRESHOLD) at the same clock readings, the yawn detector's
\* counter, mark, timestamps and cooldown are always those of the blink
\* detector, and a call logs a Fatigue event "Yawning" exactly when the
\* blink call logs its Fatigue event, with the same timestamp.
C19_YawnIsBlinkRenamed ==
    /\ [](YawnState(engine) = BlinkState(engine))
    /\ [][op'.name = "both" /\ now' = now =>
            \/ NewCalls(engine, engine') = << >>
            \/ NewCalls(engine, engine') = <<BlinkFatigue(now), YawnFatigue(now)>>
       ]_vars

\* both detectors have logged their second Fatigue event, after the first
\* one's cooldown
C19_Witness ==
    /\ op.name = "both"
    /\ Len(engine.calls) = 4
    /\ engine.calls[3] = BlinkFatigue(now)
    /\ engine.calls[4] = YawnFatigue(now)
    /\ engine.calls[1].timestamp < now
    /\ engine.yawn_cooldown_end_time = now + FATIGUE_YAWN_COOLDOWN_SECONDS

\* the last n values of s, all of s when it has no more
LastN(s, n) == IF Len(s) > n THEN SubSeq(s, Len(s) - n + 1, Len(s)) ELSE s

\* C20: a history never holds more than its capacity; once more values than
\* its capacity were appended since it was last cleared it holds exactly its
\* capacity, and at all times it holds the most recently appended values in
\* the order they were appended.
C20_RingBuffers ==
    \A b \in { <<ear_history, appended.ear, HistoryMaxLen>>,
                <<mar_history, appended.mar, HistoryMaxLen>>,
                <<hand_y_positions, appended.hand_y, HandYMaxLen>> } :
        /\ Len(b[1]) <= b[3]
        /\ Len(b[2]) > b[3] => Len(b[1]) = b[3]
        /\ b[1] = LastN(b[2], b[3])

\* every history was overfilled by two values or more, and the oldest value
\* each holds differs from the oldest it was given
C20_Witness ==
    /\ Len(appended.ear) >= HistoryMaxLen + 2
    /\ Len(appended.mar) >= HistoryMaxLen + 2
    /\ Len(appended.hand_y) >= HandYMaxLen + 2
    /\ Len(ear_history) = HistoryMaxLen
    /\ Len(hand_y_positions) = HandYMaxLen
    /\ ear_history[1] # appended.ear[1]
    /\ mar_history[1] # appended.mar[1]
    /\ hand_y_positions[1] # appended.hand_y[1]

\* the squared distance of two landmarks, in squared pixels
SquaredDistance(p, q) ==
    (p[1] - q[1]) * (p[1] - q[1]) + (p[2] - q[2]) * (p[2] - q[2])

\* d is the distance of p and q in tenths of a pixel, rounded down
IsDistance(d, p, q) ==
    /\ d >= 0
    /\ d * d <= 100 * SquaredDistance(p, q)
    /\ 100 * SquaredDistance(p, q) < (d + 1) * (d + 1)

Distances(p, q) == {d \in 0..(10 * (MaxCoord + 2)) : IsDistance(d, p, q)}

\* C21: get_eye_aspect_ratio and get_mouth_aspect_ratio raise nothing; on a
\* contour whose points 0 and 3 coincide they return 0; on every other they
\* return (|p1-p5| + |p2-p4|) / (2 * |p0-p3|), here in hundredths rounded
\* down, which is not negative.
C21_AspectRatio ==
    measured.fn # "none" =>
        LET c == measured.contour
            v == measured.result.value
        IN  /\ ~measured.result.raised
            /\ c[1] = c[4] => v = 0
            /\ c[1] # c[4] =>
                   /\ v >= 0
                   /\ \E A \in Distances(c[2], c[6]), B \in Distances(c[3], c[5]),
                         C \in Distances(c[1], c[4]) :
                          /\ C > 0
                          /\ 2 * C * v <= 100 * (A + B)
                          /\ 100 * (A + B) < 2 * C * (v + 1)

\* the mouth ratio was taken of a contour whose corners coincide while its
\* lids are apart
C21_Witness ==
    /\ measured.fn = "get_mouth_aspect_ratio"
    /\ measured.contour[1] = measured.contour[4]
    /\ measured.contour[2] # measured.contour[6]
    /\ measured.result = Returned(0)

\* C22: a call of detect_and_register_blink made while
\* now < blink_cooldown_end_time changes nothing of the engine, whatever the
\* ear: mark, counter, timestamps and cooldown end stay and nothing is
\* logged; the same for detect_and_register_yawn while
\* now < yawn_cooldown_end_time.
C22_CooldownNoOp ==
    [][/\ (/\ now' = now
           /\ op'.name = "detect_and_register_blink"
           /\ now < engine.blink_cooldown_end_time) => engine' = engine
       /\ (/\ now' = now
           /\ op'.name = "detect_and_register_yawn"
           /\ now < engine.yawn_cooldown_end_time) => engine' = engine
    ]_vars

\* a frame with the mouth open came during the yawn cooldown, which the
\* Fatigue event logged at this clock reading started
C22_Witness ==
    /\ op.name = "detect_and_register_yawn"
    /\ op.args[1] > MAR_THRESHOLD
    /\ now < engine.yawn_cooldown_end_time
    /\ engine._frames_mouth_open = 0
    /\ ~engine._is_mouth_open
    /\ Len(engine.calls) = 1
    /\ engine.calls[1] = YawnFatigue(now)

\* the "Hand Raised" events logged so far
RaisedEvents(E) ==
    SelectSeq(E.calls, LAMBDA c : c.description = "Hand Raised")

\* C23: any two "Hand Raised" events are more than
\* HAND_RAISE_COOLDOWN_SECONDS apart; a call with is_hand_raised_now made no
\* more than HAND_RAISE_COOLDOWN_SECONDS after the last logged raise logs no
\* "Hand Raised" and keeps the last raise time: during the motion cooldown
\* it changes nothing, otherwise it adds now to the motion samples.
C23_RaiseCooldown ==
    /\ [](\A i, j \in 1..Len(RaisedEvents(engine)) :
            i < j => RaisedEvents(engine)[j].timestamp
                        - RaisedEvents(engine)[i].timestamp
                            > HAND_RAISE_COOLDOWN_SECONDS)
    /\ [][(/\ HandCall
           /\ op'.args[1]
           /\ now - engine.last_hand_raised_log_time
                  <= HAND_RAISE_COOLDOWN_SECONDS) =>
              /\ RaisedEvents(engine') = RaisedEvents(engine)
              /\ engine'.last_hand_raised_log_time
                     = engine.last_hand_raised_log_time
              /\ IF now < engine.hand_cooldown_end_time
                 THEN engine' = engine
                 ELSE engine'.hand_events_deque
                          = SamplesInWindow(engine.hand_events_deque, now)
       ]_vars

\* two raises were logged, and a raised hand seen exactly
\* HAND_RAISE_COOLDOWN_SECONDS after the second was taken as a motion sample
C23_Witness ==
    /\ op.name = "register_hand_event"
    /\ op.args[1]
    /\ Len(RaisedEvents(engine)) = 2
    /\ now - engine.last_hand_raised_log_time = HAND_RAISE_COOLDOWN_SECONDS
    /\ engine.hand_events_deque # << >>
    /\ engine.hand_events_deque[Len(engine.hand_events_deque)] = now

\* C24: the attention state starts as Focused and is always one of Focused,
\* Distracted, Logged_Distraction; the logged Attention events alternate,
\* the odd ones "Distracted...", the even ones "Focused";
\* last_logged_attention_state is the description of the last of them
\* ("Focused" when there is none), and the state is Logged_Distraction
\* exactly when that is a "Distracted..." description.
C24_AttentionAlternates ==
    /\ engine._current_attention_state = "Focused"
    /\ [](LET es == AttentionEvents(engine.calls)
          IN  /\ engine._current_attention_state
                     \in {"Focused", "Distracted", "Logged_Distraction"}
              /\ \A i \in 1..Len(es) :
                     IF i % 2 = 1
                     THEN es[i].description \in DistractedDescriptions
                     ELSE es[i].description = "Focused"
              /\ engine.last_logged_attention_state
                     = IF es = << >> THEN "Focused"
                       ELSE es[Len(es)].description
              /\ engine._current_attention_state = "Logged_Distraction"
                     <=> engine.last_logged_attention_state # "Focused")

\* a second distraction was logged after the return from the first
C24_Witness ==
    /\ op.name = "update_attention"
    /\ Len(AttentionEvents(engine.calls)) = 3
    /\ AttentionEvents(engine.calls)[2].description = "Focused"
    /\ AttentionEvents(engine.calls)[3].description
           = "Distracted (looking sideways and up)"
    /\ engine._current_attention_state = "Logged_Distraction"

(***************************************************************************)
(* Claims about the registry                                               *)
(***************************************************************************)
\* handler c starts process_frame_bytes in this step (line 323)
StartsFrame(c) ==
    connections[c].pc = "process" /\ connections'[c].pc = "in_thread"

\* C25: no handler calls process_frame_bytes on an instance on which close()
\* was called before, be it by the idle sweep or by a handler that ended
\* (stated for the time before shutdown, after which the server takes no
\* frames).
C25_NoFrameAfterClose ==
    [][\A c \in Connections :
          (shutdown = "running" /\ StartsFrame(c)) =>
              instances[connections[c].proc].closes = 0
    ]_vars

\* handler c is past its registry lookup and has not seen its connection end
StillOpen(c) ==
    connections[c].pc \in {"receive", "touch", "process", "in_thread", "respond"}

\* handler c pops its participant from the registry in this step (lines
\* 366-368, 379-381)
EndsHandler(c) ==
    /\ connections[c].pc \in {"on_disconnect", "on_error"}
    /\ connections'[c].pc \in {"close", "done"}

\* C26: the instance a handler that ends pops from the registry, and will
\* close, is the one the handler itself was using, and no other handler
\* whose connection is still open is using it.
C26_HandlerClosesOwnProcessor ==
    [][\A c \in Connections :
          EndsHandler(c) =>
              LET popped == Get(video_processors, connections[c].participant_id)
              IN  popped # 0 =>
                      /\ popped = connections[c].proc
                      /\ \A d \in Connections \ {c} :
                             StillOpen(d) => connections[d].proc # popped
    ]_vars

\* C27: whenever nobody holds processors_lock, last_active and
\* video_processors have the same keys (video_processors, a dict, holds one
\* instance per key); stated for the time before shutdown.
C27_RegistryMapsConsistent ==
    (shutdown = "running" /\ processors_lock = "free") =>
        DOMAIN last_active = DOMAIN video_processors

\* the sweep evicts participant pid in this step
Evicts(pid) ==
    /\ cleanup_task.pc = "evicting"
    /\ pid \in cleanup_task.evict
    /\ pid \notin cleanup_task'.evict
    /\ cleanup_task'.pc = "evicting"

\* pid is registered and was last active more than PROCESSOR_IDLE_TIMEOUT ago
Idle(pid) ==
    /\ pid \in DOMAIN last_active
    /\ now - last_active[pid] > PROCESSOR_IDLE_TIMEOUT

\* C28: the sweep evicts a participant only if it is idle for more than
\* PROCESSOR_IDLE_TIMEOUT, holding the lock; the participant is then in
\* neither map and the one instance closed is the one it was registered
\* with; while the loop is not cancelled a participant idle for more than
\* the timeout is eventually evicted or active again; the passing of time
\* alone changes nothing of the state engine.
C28_IdleEviction ==
    /\ [][\A pid \in ParticipantIds :
             Evicts(pid) =>
                 /\ Idle(pid)
                 /\ processors_lock = "cleanup"
                 /\ processors_lock' = "cleanup"
                 /\ pid \notin DOMAIN video_processors'
                 /\ pid \notin DOMAIN last_active'
                 /\ \A i \in Connections :
                        instances'[i] # instances[i] =>
                            /\ Get(video_processors, pid) = i
                            /\ instances'[i].closes = instances[i].closes + 1
       ]_vars
    /\ [][now' # now => engine' = engine]_vars
    /\ \A pid \in ParticipantIds :
           Idle(pid) ~> (~Idle(pid) \/ cleanup_task.pc = "cancelled")

\* a participant connected, kept its connection open and was evicted by a
\* sweep made more than PROCESSOR_IDLE_TIMEOUT later; the loop sleeps again
C28_Witness ==
    /\ cleanup_task.pc = "sleep"
    /\ shutdown = "running"
    /\ now = StartTime + PROCESSOR_IDLE_TIMEOUT + 1
    /\ video_processors = << >>
    /\ last_active = << >>
    /\ connections[1].pc = "receive"
    /\ connections[1].proc = 1
    /\ instances[1].closes = 1
    /\ connections[2].pc = "new"

\* the frame of this step is labelled "Hand Detected" or logs the event
HandDetected ==
    \/ response'.hand_instant = "Hand Detected"
    \/ \E k \in 1..Len(NewCalls(engine, engine')) :
           NewCalls(engine, engine')[k].description = "Hand Detected"

\* C30: a frame is labelled "Hand Detected", or logs the event, only if it
\* has a hand and a face and leaves hand_y_positions full, all of its
\* samples appended in frames with a face since the last frame without one:
\* never in a frame without a hand or without a face, nor before the
\* capacity's number of hand samples was taken since the face was found
\* again.
C30_HandDetectedNeedsFullBuffer ==
    [][(FrameCall /\ op'.args[1].decodable /\ HandDetected) =>
          /\ op'.args[1].hand
          /\ op'.args[1].face
          /\ Len(hand_y_positions') = HandYMaxLen
          /\ appended'.hand_since_face >= HandYMaxLen
    ]_vars

\* the instances registered
Registered == { video_processors[pid] : pid \in DOMAIN video_processors }

C33_MarkedMeansCounted ==
    /\ [](/\ engine._is_eye_closed =>
                 engine._frames_eye_closed >= EAR_CONSEC_FRAMES_CLOSED
          /\ engine._is_mouth_open =>
                 engine._frames_mouth_open >= MAR_CONSEC_FRAMES_OPEN)
    /\ [][/\ (/\ now' = now
               /\ op'.name = "detect_and_register_blink"
               /\ op'.args[1] >= EAR_THRESHOLD
               /\ now >= engine.blink_cooldown_end_time
               /\ engine._is_eye_closed)
              => /\ engine'.blink_events_deque # << >>
                 /\ engine'.blink_events_deque[Len(engine'.blink_events_deque)] = now
          /\ (/\ now' = now
               /\ op'.name = "detect_and_register_yawn"
               /\ op'.args[1] <= MAR_THRESHOLD
               /\ now >= engine.yawn_cooldown_end_time
               /\ engine._is_mouth_open)
              => /\ engine'.yawn_events_deque # << >>
                 /\ engine'.yawn_events_deque[Len(engine'.yawn_events_deque)] = now
         ]_vars

\* the eye has stayed closed one frame longer than it takes to mark it
C33_Witness ==
    /\ op.name = "detect_and_register_blink"
    /\ engine._is_eye_closed
    /\ engine._frames_eye_closed = EAR_CONSEC_FRAMES_CLOSED + 1

\* C34: while now < blink_cooldown_end_time the eye is not marked closed and
\* its closed-frame counter is 0; while now < yawn_cooldown_end_time the
\* mouth is not marked open and its open-frame counter is 0.
C34_NoEpisodeAcrossCooldown ==
    /\ now < engine.blink_cooldown_end_time =>
           ~engine._is_eye_closed /\ engine._frames_eye_closed = 0
    /\ now < engine.yawn_cooldown_end_time =>
           ~engine._is_mouth_open /\ engine._frames_mouth_open = 0

\* a frame with the eyes closed came during the blink cooldown and was not
\* counted
C34_Witness ==
    /\ op.name = "detect_and_register_blink"
    /\ op.args[1] < EAR_THRESHOLD
    /\ now < engine.blink_cooldown_end_time
    /\ engine._frames_eye_closed = 0
    /\ ~engine._is_eye_closed

\* the place of an event among those of one frame
EventRank(c) ==
    CASE c.event_type = "Fatigue" /\ c.description = "Blink: tired fatigue" -> 1
      [] c.event_type = "Fatigue" /\ c.description = "Yawning" -> 2
      [] c.event_type = "Attention" -> 3
      [] c.event_type = "Hand Motion" -> 4
      [] OTHER -> 0

\* C32: the events one process_frame_bytes call logs are at most one blink
\* Fatigue event, one yawn Fatigue event, one Attention event and one Hand
\* Motion event, logged in that order; they are the events of the frame's
\* result, four at most; a frame with no face logs no Fatigue event.
C32_EventsOfOneFrame ==
    [][LET N == NewCalls(engine, engine')
       IN  /\ \A i \in 1..Len(N) : EventRank(N[i]) \in 1..4
           /\ \A i, j \in 1..Len(N) : i < j => EventRank(N[i]) < EventRank(N[j])
           /\ Len(N) <= 4
           /\ response'.events_logged = FormatEvents(N)
           /\ ~op'.args[1].face =>
                  \A i \in 1..Len(N) : N[i].event_type # "Fatigue"
    ]_vars

\* a frame whose result holds the four events
C32_Witness ==
    /\ op.name = "process_frame_bytes"
    /\ Len(response.events_logged) = 4
    /\ response.events_logged[1][3] = "Blink: tired fatigue"
    /\ response.events_logged[2][3] = "Yawning"
    /\ response.events_logged[3][2] = "Attention"
    /\ response.events_logged[4][2] = "Hand Motion"

\* handler c leaves pc in this step
Leaves(c, pc) == connections[c].pc = pc /\ connections'[c].pc # pc

=============================================================================
